---- MODULE Spec2Model ----
(***************************************************************************)
(* Expense lifecycle and payout-safety engine of the fiscal-hosting API:   *)
(* the status state machine and its permission evaluators, the balance     *)
(* check made before a payout, the soft lock kept in data.isLocked, the    *)
(* payout dispatch of payExpense and the rolling 2FA limit kept in the     *)
(* cache.  One expense row is modelled, together with the ledger           *)
(* transactions recorded for it; payExpense and markExpenseAsUnpaid run    *)
(* as concurrent requests that interleave at their awaits on the lock.     *)
(***************************************************************************)
EXTENDS Integers, FiniteSets, Sequences, TLC

\* ---------------------------------------------------------------------------
\* Bounds of the model
\* ---------------------------------------------------------------------------

\* Ledger transactions recorded for the expense in one behaviour.
MaxTransactions == 2

\* Outbound calls to a payment provider in one behaviour.
MaxProviderCalls == 1

\* expense.amount, in minor units (scenario 7 of the specification).
ExpenseAmount == 10000

\* A collective balance lower than the amount of the expense.
LowBalance == 5000

\* A collective balance that covers the amount and the estimated fees.
HighBalance == 20000

\* A total declared by the host admin for a manual payout, below LowBalance.
LowTotal == 3000

\* The processor fee estimated by the provider for an automated payout.
ProcessorFee == 500

\* host.settings.payoutsTwoFactorAuth.rollingLimit as configured by the host.
HostRollingLimit == 25000

\* ---------------------------------------------------------------------------
\* Program constants
\* ---------------------------------------------------------------------------

\* Rolling limit used when the host configures none.
DefaultRollingLimit == 1000000

\* ---------------------------------------------------------------------------
\* Domains
\* ---------------------------------------------------------------------------

\* ExpenseStatus; NONE stands for an expense row that does not exist yet or
\* has been deleted (findByPk returns null).
Statuses ==
  {"DRAFT", "UNVERIFIED", "PENDING", "INCOMPLETE", "APPROVED", "REJECTED",
   "SPAM", "ERROR", "SCHEDULED_FOR_PAYMENT", "PROCESSING", "PAID", "CANCELED",
   "INVITE_DECLINED"}

NONE == "NONE"

Procs == {"r1", "r2"}

\* remoteUser of a request: the author (expense.UserId, admin of the payee
\* profile), the invitee of a draft, an admin of the collective, an admin of
\* the host, an admin of the platform, or nobody.
Users == {"author", "invitee", "cadmin", "hadmin", "padmin"}

NoUser == "none"

\* A request: its remoteUser and whether its token carries the scope "expenses".
Reqs ==
  [user : Users \cup {NoUser}, scope : {TRUE}] \cup {[user |-> "hadmin", scope |-> FALSE]}

PayoutMethodTypes == {"PAYPAL", "BANK_ACCOUNT", "ACCOUNT_BALANCE", "OTHER"}

LegacyPayoutMethods == {"paypal", "manual", "other", "donation"}

\* No edit is in progress.
NoEdit ==
  [pc |-> "idle", op |-> "", status |-> "", isLocked |-> FALSE, amount |-> 0,
   currency |-> ""]

VARIABLES
  status,         \* expense.status, NONE when the row does not exist
  isLocked,       \* expense.data.isLocked
  feesPayer,      \* expense.feesPayer
  ledger,         \* transactions recorded for the expense, oldest first
  cache,          \* cache entry `${remoteUser.id}_2fa_payment_limit`
  providerCalls,  \* calls made to a payment provider's pay endpoint
  limited,        \* users whose USE_EXPENSES feature is disabled
  recurringExpense, \* the RecurringExpense row of the expense: "none", "linked" or "deleted"
  onHold,         \* expense.onHold
  draftKey,       \* expense.data.draftKey, Undefined when data holds none
  providerData,   \* whether expense.data holds the data returned by the provider's pay
  importRow,      \* the row of a transactions import: its status and its ExpenseId
  imports,        \* the createExpense calls made for that row, one per request
  expenseAmount,  \* expense.amount
  expenseCurrency, \* expense.currency
  edit,           \* the edit in progress: the expense it has loaded
  elsewhere,      \* the payouts of other expenses that are validating the limit
  cfg,            \* the expense's fixed attributes and its accounts' settings
  proc,           \* the requests running payExpense / markExpenseAsUnpaid
  last            \* what the last call that wrote outside the lock raised

vars ==
  <<status, isLocked, feesPayer, ledger, cache, providerCalls, limited,
    recurringExpense, onHold, draftKey, providerData, importRow, imports, expenseAmount,
    expenseCurrency, edit, elsewhere, cfg, proc, last>>

\* ---------------------------------------------------------------------------
\* Helpers
\* ---------------------------------------------------------------------------

\* Math.round of num/den for a non-negative num and a positive den.
Round(num, den) == (2 * num + den) \div (2 * den)

NoError == "none"

\* A cache entry: absent (cache.get returns undefined) or a number.
Absent == [set |-> FALSE, val |-> 0]

Entry(v) == [set |-> TRUE, val |-> v]

\* No payout of another expense is validating the limit, and no payout has
\* passed without a token since the last token was presented.
NoneElsewhere == [sum |-> 0, read |-> [p \in Procs |-> [pc |-> "idle", entry |-> Absent]]]

\* Transactions of the expense that a refund has not reversed yet
\* (kind EXPENSE, RefundTransactionId null, isRefund false).
LiveTransactions(l) ==
  Cardinality({i \in DOMAIN l : l[i].kind # "REFUND"})
    - Cardinality({i \in DOMAIN l : l[i].kind = "REFUND"})

Payments(l) == Cardinality({i \in DOMAIN l : l[i].kind # "REFUND"})

\* A transaction of a kind; declared is the total passed to
\* createTransactionsForManuallyPaidExpense, 0 for the transactions that are
\* not created by it.
Tx(kind) == [kind |-> kind, declared |-> 0]

ManualTx(total) == [kind |-> "MANUAL", declared |-> total]

\* ---------------------------------------------------------------------------
\* Roles (role predicates of the permission evaluators)
\* ---------------------------------------------------------------------------

isOwner(req) == req.user = cfg.userId

\* The draft key stored in expense.data when the invite is sent, and no key.
StoredKey == "draft-key"

Undefined == "undefined"

\* The draftKey argument of a call: the stored key, another one, or none.
DraftKeyArgs == {StoredKey, "other-key", Undefined}

hasCorrectDraftKey(presented) == presented = draftKey

isDraftPayee(req) == req.user = "invitee"

isCollectiveAdmin(req) == req.user = "cadmin"

isHostAdmin(req) == req.user = "hadmin"

isPlatformAdmin(req) == req.user = "padmin"

remoteUserMeetsOneCondition(req, conditions) ==
  /\ req.user # NoUser
  /\ \E c \in conditions : c

validateExpenseScope(req) == req.scope

canUseFeature(user) == user # NoUser /\ user \notin limited

\* ---------------------------------------------------------------------------
\* Permission evaluators.  Each returns "OK" when the source evaluator returns
\* true, and otherwise the reason code of the Forbidden it throws under
\* options.throw (it returns false without it).
\* ---------------------------------------------------------------------------

OK == "OK"

RoleCode(granted) == IF granted THEN OK ELSE "MINIMAL_CONDITION_NOT_MET"

\* An edit gate that lets every signed-in user through.
canEditExpenseAnyUser(req, st) == OK

canEditExpense(req, st) ==
  IF ~validateExpenseScope(req) THEN "INVALID_SCOPE"
  ELSE IF cfg.type = "CHARGE" /\ st \in {"PAID", "PROCESSING"} THEN
    RoleCode(remoteUserMeetsOneCondition(req,
      {isOwner(req), isHostAdmin(req), isCollectiveAdmin(req)}))
  ELSE IF st = "DRAFT" THEN
    RoleCode(remoteUserMeetsOneCondition(req,
      {isOwner(req), isHostAdmin(req), isDraftPayee(req)}))
  ELSE IF st \in {"PAID", "PROCESSING", "SCHEDULED_FOR_PAYMENT", "CANCELED",
                  "INVITE_DECLINED"} THEN "UNSUPPORTED_STATUS"
  ELSE IF ~canUseFeature(req.user) THEN "UNSUPPORTED_USER_FEATURE"
  ELSE RoleCode(remoteUserMeetsOneCondition(req,
      {isOwner(req), isHostAdmin(req), isCollectiveAdmin(req)}))

PayableStatuses == {"APPROVED", "ERROR"}

\* A payment gate that looks at the status only.
canPayExpenseAnyUser(req, st) ==
  IF st \notin PayableStatuses THEN "UNSUPPORTED_STATUS" ELSE OK

canPayExpense(req, st) ==
  IF ~validateExpenseScope(req) THEN "INVALID_SCOPE"
  ELSE IF st \notin PayableStatuses THEN "UNSUPPORTED_STATUS"
  ELSE IF ~canUseFeature(req.user) THEN "UNSUPPORTED_USER_FEATURE"
  ELSE RoleCode(remoteUserMeetsOneCondition(req, {isHostAdmin(req)}))

\* A policy that always hands the choice to the host once its policy is
\* enabled for hosted collectives.
policyHostFirst(hostPolicy, collectivePolicy, collectiveAdminCount) ==
  IF hostPolicy.enabled /\ hostPolicy.appliesToHostedCollectives
  THEN hostPolicy ELSE collectivePolicy

\* The EXPENSE_AUTHOR_CANNOT_APPROVE policy that applies: that of the host
\* or that of the collective.
policy(hostPolicy, collectivePolicy, collectiveAdminCount) ==
  IF hostPolicy.enabled /\ hostPolicy.appliesToHostedCollectives
  THEN IF ~hostPolicy.appliesToSingleAdminCollectives /\ collectiveAdminCount = 1
       THEN collectivePolicy ELSE hostPolicy
  ELSE collectivePolicy

\* policy.enabled && expense.amount >= policy.amountInCents &&
\* remoteUser.id === expense.UserId, for the policy that applies.
AuthorCannotApprove(req) ==
  LET p == policy(cfg.hostPolicy, cfg.collectivePolicy, cfg.collectiveAdminCount)
  IN p.enabled /\ expenseAmount >= p.amountInCents /\ req.user = cfg.userId

\* canApprove without its branch for INCOMPLETE expenses.
canApproveIncompleteAsPending(req, st) ==
  IF ~validateExpenseScope(req) THEN "INVALID_SCOPE"
  ELSE IF st \notin {"PENDING", "REJECTED", "INCOMPLETE"} THEN "UNSUPPORTED_STATUS"
  ELSE IF ~canUseFeature(req.user) THEN "UNSUPPORTED_USER_FEATURE"
  ELSE IF AuthorCannotApprove(req) THEN "AUTHOR_CANNOT_APPROVE"
  ELSE RoleCode(remoteUserMeetsOneCondition(req,
      {isCollectiveAdmin(req), isHostAdmin(req)}))

canApprove(req, st) ==
  IF ~validateExpenseScope(req) THEN "INVALID_SCOPE"
  ELSE IF st \notin {"PENDING", "REJECTED", "INCOMPLETE"} THEN "UNSUPPORTED_STATUS"
  ELSE IF ~canUseFeature(req.user) THEN "UNSUPPORTED_USER_FEATURE"
  ELSE IF AuthorCannotApprove(req) THEN "AUTHOR_CANNOT_APPROVE"
  ELSE IF st = "INCOMPLETE" THEN RoleCode(isHostAdmin(req))
  ELSE RoleCode(remoteUserMeetsOneCondition(req,
      {isCollectiveAdmin(req), isHostAdmin(req)}))

\* canReject that accepts APPROVED expenses as well.
canRejectAlsoApproved(req, st) ==
  IF ~validateExpenseScope(req) THEN "INVALID_SCOPE"
  ELSE IF st \notin {"PENDING", "UNVERIFIED", "INCOMPLETE", "APPROVED"}
    THEN "UNSUPPORTED_STATUS"
  ELSE IF ~canUseFeature(req.user) THEN "UNSUPPORTED_USER_FEATURE"
  ELSE IF cfg.type = "SETTLEMENT" THEN
    RoleCode(remoteUserMeetsOneCondition(req, {isPlatformAdmin(req)}))
  ELSE RoleCode(remoteUserMeetsOneCondition(req,
      {isCollectiveAdmin(req), isHostAdmin(req)}))

canReject(req, st) ==
  IF ~validateExpenseScope(req) THEN "INVALID_SCOPE"
  ELSE IF st \notin {"PENDING", "UNVERIFIED", "INCOMPLETE"} THEN "UNSUPPORTED_STATUS"
  ELSE IF ~canUseFeature(req.user) THEN "UNSUPPORTED_USER_FEATURE"
  ELSE IF cfg.type = "SETTLEMENT" THEN
    RoleCode(remoteUserMeetsOneCondition(req, {isPlatformAdmin(req)}))
  ELSE RoleCode(remoteUserMeetsOneCondition(req,
      {isCollectiveAdmin(req), isHostAdmin(req)}))

\* buildCanDeclineExpenseInviteEvaluator(draftKey): keyMatches is
\* draftKey === expense.data.draftKey.
canDeclineExpenseInvite(req, st, keyMatches) ==
  IF req.user # NoUser /\ ~validateExpenseScope(req) THEN "INVALID_SCOPE"
  ELSE IF st # "DRAFT" THEN "UNSUPPORTED_STATUS"
  ELSE IF req.user # NoUser /\ ~canUseFeature(req.user) THEN "UNSUPPORTED_USER_FEATURE"
  ELSE IF req.user # NoUser THEN
    (IF isDraftPayee(req) THEN OK ELSE "UNSUPPORTED_USER_FEATURE")
  ELSE IF ~keyMatches THEN "MINIMAL_CONDITION_NOT_MET"
  ELSE OK

\* expense.UserId === PlatformConstants.PlatformUserId
AuthoredByPlatform == cfg.userId = "platform"

\* canMarkAsSpam without its check of the status.
canMarkAsSpamAnyStatus(req, st) ==
  IF ~validateExpenseScope(req) THEN "INVALID_SCOPE"
  ELSE IF ~canUseFeature(req.user) THEN "UNSUPPORTED_USER_FEATURE"
  ELSE IF AuthoredByPlatform THEN "UNSUPPORTED_USER_FEATURE"
  ELSE RoleCode(remoteUserMeetsOneCondition(req,
      {isCollectiveAdmin(req), isHostAdmin(req)}))

canMarkAsSpam(req, st) ==
  IF ~validateExpenseScope(req) THEN "INVALID_SCOPE"
  ELSE IF st \notin {"REJECTED"} THEN "UNSUPPORTED_STATUS"
  ELSE IF ~canUseFeature(req.user) THEN "UNSUPPORTED_USER_FEATURE"
  ELSE IF AuthoredByPlatform THEN "UNSUPPORTED_USER_FEATURE"
  ELSE RoleCode(remoteUserMeetsOneCondition(req,
      {isCollectiveAdmin(req), isHostAdmin(req)}))

\* canUnapprove without its branch for INCOMPLETE expenses.
canUnapproveIncompleteAsApproved(req, st) ==
  IF ~validateExpenseScope(req) THEN "INVALID_SCOPE"
  ELSE IF st \notin {"INCOMPLETE", "APPROVED", "ERROR"} THEN "UNSUPPORTED_STATUS"
  ELSE IF ~canUseFeature(req.user) THEN "UNSUPPORTED_USER_FEATURE"
  ELSE RoleCode(remoteUserMeetsOneCondition(req,
      {isCollectiveAdmin(req), isHostAdmin(req)}))

canUnapprove(req, st) ==
  IF ~validateExpenseScope(req) THEN "INVALID_SCOPE"
  ELSE IF st \notin {"INCOMPLETE", "APPROVED", "ERROR"} THEN "UNSUPPORTED_STATUS"
  ELSE IF ~canUseFeature(req.user) THEN "UNSUPPORTED_USER_FEATURE"
  ELSE IF st = "INCOMPLETE" THEN
    RoleCode(remoteUserMeetsOneCondition(req, {isHostAdmin(req)}))
  ELSE RoleCode(remoteUserMeetsOneCondition(req,
      {isCollectiveAdmin(req), isHostAdmin(req)}))

canMarkAsIncomplete(req, st) ==
  IF ~validateExpenseScope(req) THEN "INVALID_SCOPE"
  ELSE IF st \notin {"APPROVED", "ERROR"} THEN "UNSUPPORTED_STATUS"
  ELSE IF ~canUseFeature(req.user) THEN "UNSUPPORTED_USER_FEATURE"
  ELSE IF ~isHostAdmin(req) THEN "UNSUPPORTED_USER_FEATURE"
  ELSE IF cfg.type = "SETTLEMENT" THEN "UNSUPPORTED_STATUS"
  ELSE OK

\* A hold gate that does not look at the status.
canPutOnHoldAnyStatus(req, st, held) ==
  IF ~validateExpenseScope(req) THEN "INVALID_SCOPE"
  ELSE IF held THEN "UNSUPPORTED_STATUS"
  ELSE IF cfg.type = "SETTLEMENT" THEN "UNSUPPORTED_STATUS"
  ELSE RoleCode(remoteUserMeetsOneCondition(req, {isHostAdmin(req)}))

canPutOnHold(req, st, held) ==
  IF ~validateExpenseScope(req) THEN "INVALID_SCOPE"
  ELSE IF st # "APPROVED" \/ held THEN "UNSUPPORTED_STATUS"
  ELSE IF cfg.type = "SETTLEMENT" THEN "UNSUPPORTED_STATUS"
  ELSE RoleCode(remoteUserMeetsOneCondition(req, {isHostAdmin(req)}))

canReleaseHold(req, held) ==
  IF ~validateExpenseScope(req) THEN "INVALID_SCOPE"
  ELSE IF ~held THEN "UNSUPPORTED_STATUS"
  ELSE RoleCode(remoteUserMeetsOneCondition(req, {isHostAdmin(req)}))

\* An unpaid gate that lets the charges of a virtual card through.
canMarkAsUnpaidAlsoCharge(req, st) ==
  IF ~validateExpenseScope(req) THEN "INVALID_SCOPE"
  ELSE IF st # "PAID" THEN "UNSUPPORTED_STATUS"
  ELSE IF ~canUseFeature(req.user) THEN "UNSUPPORTED_USER_FEATURE"
  ELSE IF cfg.type = "SETTLEMENT" THEN
    RoleCode(remoteUserMeetsOneCondition(req, {isPlatformAdmin(req)}))
  ELSE RoleCode(remoteUserMeetsOneCondition(req, {isHostAdmin(req)}))

canMarkAsUnpaid(req, st) ==
  IF ~validateExpenseScope(req) THEN "INVALID_SCOPE"
  ELSE IF st # "PAID" THEN "UNSUPPORTED_STATUS"
  ELSE IF cfg.type = "CHARGE" THEN "UNSUPPORTED_TYPE"
  ELSE IF ~canUseFeature(req.user) THEN "UNSUPPORTED_USER_FEATURE"
  ELSE IF cfg.type = "SETTLEMENT" THEN
    RoleCode(remoteUserMeetsOneCondition(req, {isPlatformAdmin(req)}))
  ELSE RoleCode(remoteUserMeetsOneCondition(req, {isHostAdmin(req)}))

canUnschedulePayment(req, st) ==
  IF ~validateExpenseScope(req) THEN "INVALID_SCOPE"
  ELSE IF st # "SCHEDULED_FOR_PAYMENT" THEN "UNSUPPORTED_STATUS"
  ELSE RoleCode(remoteUserMeetsOneCondition(req, {isHostAdmin(req)}))

\* ---------------------------------------------------------------------------
\* Errors raised to the caller
\* ---------------------------------------------------------------------------

ErrLocked == "Error: This expense is already been processed"

\* A rejected promise of the database layer (expense.update, expense.save,
\* markAsPaid, createTransactions..., limitFeature).
DatabaseError == "DatabaseError"

\* A rejected promise of expense.createActivity.
ActivityError == "ActivityError"

\* ---------------------------------------------------------------------------
\* lockExpense: the soft lock
\* ---------------------------------------------------------------------------

\* The transaction that acquires the lock: what it throws, NoError when it
\* sets data.isLocked.
\* A lock that does not look at the flag before setting it.
lockExpenseAcquireBlind(st, locked) ==
  IF st = NONE THEN "NotFound" ELSE NoError

lockExpenseAcquire(st, locked) ==
  IF st = NONE THEN "NotFound"
  ELSE IF locked THEN ErrLocked
  ELSE NoError

\* The finally block: the flag written once the callback has settled, err
\* being what the callback threw (NoError when it returned).
\* A release made after the callback instead of in a finally block.
lockExpenseReleaseOnSuccess(locked, err) ==
  IF err = NoError THEN FALSE ELSE locked

lockExpenseRelease(locked, err) == FALSE

\* ---------------------------------------------------------------------------
\* checkHasBalanceToPayExpense
\* ---------------------------------------------------------------------------

typeSupportsFeesPayer(pmt) == pmt \in {"BANK_ACCOUNT", "OTHER", "STRIPE"}

\* assertMinExpectedBalance: TRUE when it throws ValidationFailed.  Rates are
\* in hundredths (latest = 100 is a rate of 1).
assertMinExpectedBalanceFails(balance, amountToPay, fx) ==
  IF fx.same THEN balance < amountToPay
  ELSE IF fx.hasStats THEN
    LET rate == fx.latest - 2 * fx.stddev IN
      IF rate > 0 THEN balance < Round(amountToPay * 100, rate)
      ELSE rate = 0
  ELSE balance < Round(amountToPay * 12, 10)

\* A check that adds the processor fee to the total whoever pays the fees.
checkHasBalanceToPayExpenseFeeAlways(balance, amount, etype, fp, pmt, forceManual, total, fee, fx) ==
  IF fp = "PAYEE" /\ ~typeSupportsFeesPayer(pmt) THEN "AssertionError"
  ELSE IF fp = "PAYEE" /\ pmt # "STRIPE" /\ ~fx.same THEN "AssertionError"
  ELSE IF forceManual THEN
    (IF etype # "SETTLEMENT" /\ Round(balance * fx.hostRate, 100) < total
     THEN "Error" ELSE NoError)
  ELSE IF etype # "SETTLEMENT" /\ assertMinExpectedBalanceFails(balance, amount, fx)
    THEN "ValidationFailed"
  ELSE IF fp \notin {"COLLECTIVE", "PAYEE"} THEN "Error"
  ELSE IF etype # "SETTLEMENT" /\ assertMinExpectedBalanceFails(balance, amount + fee, fx)
    THEN "ValidationFailed"
  ELSE NoError

\* What the check throws, NoError when the balance is enough.
checkHasBalanceToPayExpense(balance, amount, etype, fp, pmt, forceManual, total, fee, fx) ==
  IF fp = "PAYEE" /\ ~typeSupportsFeesPayer(pmt) THEN "AssertionError"
  ELSE IF fp = "PAYEE" /\ pmt # "STRIPE" /\ ~fx.same THEN "AssertionError"
  ELSE IF forceManual THEN
    (IF etype # "SETTLEMENT" /\ Round(balance * fx.hostRate, 100) < total
     THEN "Error" ELSE NoError)
  ELSE IF etype # "SETTLEMENT" /\ assertMinExpectedBalanceFails(balance, amount, fx)
    THEN "ValidationFailed"
  ELSE IF fp \notin {"COLLECTIVE", "PAYEE"} THEN "Error"
  ELSE IF etype # "SETTLEMENT" /\
          assertMinExpectedBalanceFails(balance,
            IF fp = "COLLECTIVE" THEN amount + fee ELSE amount, fx)
    THEN "ValidationFailed"
  ELSE NoError

\* ---------------------------------------------------------------------------
\* validateExpensePayout2FALimit
\* ---------------------------------------------------------------------------

\* The cache key of the rolling counter for a payout made by a user for a
\* host in a two-factor session: `${req.remoteUser.id}_2fa_payment_limit`.
totalPaidExpensesAmountKey(userId, hostId, sessionId) == <<userId, "2fa_payment_limit">>

\* get(host, 'settings.payoutsTwoFactorAuth.rollingLimit', 1000000)
RollingLimit(configured) ==
  IF configured = 0 THEN DefaultRollingLimit ELSE configured

\* A token asked for only when the payout goes over the limit.
use2FATokenOverLimitOnly(entry, amountInHost, limit) ==
  entry.val + amountInHost > limit

use2FAToken(entry, amountInHost, limit) ==
  ~entry.set \/ entry.val + amountInHost > limit

\* A counter that is never reset.
RollingLimitAfterAlwaysAdds(entry, amountInHost, limit) ==
  Entry(entry.val + amountInHost)

\* The entry written when the validation has passed.
RollingLimitAfter(entry, amountInHost, limit) ==
  IF use2FAToken(entry, amountInHost, limit) THEN Entry(0)
  ELSE Entry(entry.val + amountInHost)

\* twoFactor is what the request brings to the two-factor library: "noDevice"
\* (the user has not configured 2FA), "refused" (no valid token and no live
\* 2FA session: validateRequest throws), "passed" (a valid 2FA token is
\* presented) or "session" (no token, but a 2FA session opened by an earlier
\* token is still live).
TwoFactorAnswers == {"noDevice", "refused", "passed", "session"}

\* twoFactorAuthLib.validateRequest: what it throws.  With alwaysAskForToken
\* a live session does not stand in for a token.
validateRequest(twoFactor, alwaysAskForToken) ==
  IF twoFactor = "refused" THEN "TwoFactorError"
  ELSE IF twoFactor = "session" /\ alwaysAskForToken THEN "TwoFactorError"
  ELSE NoError

validateExpensePayout2FALimit(entry, amountInHost, limit, twoFactor) ==
  IF twoFactor = "noDevice" THEN [err |-> "Error", entry |-> entry]
  ELSE IF validateRequest(twoFactor, use2FAToken(entry, amountInHost, limit)) # NoError
    THEN [err |-> validateRequest(twoFactor, use2FAToken(entry, amountInHost, limit)),
          entry |-> entry]
  ELSE [err |-> NoError, entry |-> RollingLimitAfter(entry, amountInHost, limit)]

\* ---------------------------------------------------------------------------
\* payExpense: the payout dispatch (the try block and what follows it)
\* ---------------------------------------------------------------------------

\* The branch of the dispatch taken for a payout.
Branch(forceManual, pmt, legacy) ==
  IF forceManual THEN "forceManual"
  ELSE IF pmt = "PAYPAL" THEN "paypal"
  ELSE IF pmt = "BANK_ACCOUNT" THEN "bank"
  ELSE IF pmt = "ACCOUNT_BALANCE" THEN "balance"
  ELSE IF legacy \in {"manual", "other"} THEN "legacy"
  ELSE "none"

\* What the collaborators of a branch may answer.  "ok": every call resolves.
\* "beforeLedger": a call awaited before the ledger write rejects, or the
\* ledger write itself does.  "afterLedger": the expense.update that follows
\* the ledger write rejects.  "markAsPaid": expense.markAsPaid rejects.
\* PayPal: "hostCurrency" (collective and host currencies differ), "noPaypal"
\* (no adaptive payment method), "same:*" (payee email is the host's own),
\* "adaptive:*" (payExpenseWithPayPalAdaptive: "CREATED", "ERROR" and "OTHER"
\* are execution statuses of the provider's response).  Bank account: "ott",
\* "noAccount" (no connected account), "provider" (the provider's pay
\* rejects), "update" (expense.update of setTransferWiseExpenseAsProcessing
\* rejects), "setProcessing" (its expense.setProcessing rejects), "activity"
\* (its expense.createActivity rejects).  Account balance: "payeeHost" (payee has no or another host).
Answers(branch) ==
  CASE branch = "forceManual" -> {"ok", "beforeLedger", "afterLedger", "markAsPaid"}
    [] branch = "paypal" ->
         {"hostCurrency", "noPaypal", "same:ok", "same:beforeLedger", "same:markAsPaid",
          "adaptive:unsupported", "adaptive:provider", "adaptive:fundsExceeded",
          "adaptive:CREATED", "adaptive:ERROR", "adaptive:OTHER", "adaptive:ok",
          "adaptive:beforeLedger", "adaptive:markAsPaid", "adaptive:updateBalance"}
    [] branch = "bank" -> {"ott", "noAccount", "provider", "ok", "update", "setProcessing", "activity"}
    [] branch = "balance" -> {"payeeHost", "ok", "beforeLedger", "markAsPaid"}
    [] branch = "legacy" -> {"ok", "beforeLedger", "markAsPaid"}
    [] OTHER -> {"ok", "markAsPaid"}

\* The outcome of a dispatch: the error raised (NoError when payExpense
\* returns), the kind of the ledger transaction written ("" when none is),
\* the status written ("" when none is), whether a provider was called and
\* whether the catch block of payExpense saw the error.
Outcome(err, tx, st, called, caught) ==
  [err |-> err, tx |-> tx, st |-> st, called |-> called, caught |-> caught]

\* A manual payout that marks the expense as paid without recording it.
DispatchForceManualNoLedger(a) ==
  CASE a = "ok" -> Outcome(NoError, "", "PAID", FALSE, FALSE)
    [] a = "beforeLedger" -> Outcome(DatabaseError, "", "", FALSE, TRUE)
    [] a = "afterLedger" -> Outcome(DatabaseError, "MANUAL", "", FALSE, TRUE)
    [] OTHER -> Outcome(DatabaseError, "MANUAL", "", FALSE, FALSE)

DispatchForceManual(a) ==
  CASE a = "ok" -> Outcome(NoError, "MANUAL", "PAID", FALSE, FALSE)
    [] a = "beforeLedger" -> Outcome(DatabaseError, "", "", FALSE, TRUE)
    [] a = "afterLedger" -> Outcome(DatabaseError, "MANUAL", "", FALSE, TRUE)
    [] OTHER -> Outcome(DatabaseError, "MANUAL", "", FALSE, FALSE)

\* What is raised inside payExpenseWithPayPalAdaptive for an answer, NoError
\* when nothing is: an Error before its try block, the provider's own error
\* (PreapprovalExceeded when its message says that the total exceeds the
\* preapproved maximum), a BadRequest or a ServerError for the execution
\* status, or what the database layer or updateBalance rejects with.
AdaptiveRaised(a) ==
  CASE a = "adaptive:unsupported" -> "Error"
    [] a = "adaptive:provider" -> "ProviderError"
    [] a = "adaptive:fundsExceeded" -> "PreapprovalExceeded"
    [] a = "adaptive:CREATED" -> "BadRequest"
    [] a \in {"adaptive:ERROR", "adaptive:OTHER"} -> "ServerError"
    [] a \in {"adaptive:beforeLedger", "adaptive:markAsPaid", "adaptive:updateBalance"} ->
         DatabaseError
    [] OTHER -> NoError

\* The catch block of payExpenseWithPayPalAdaptive: what it throws for an
\* error raised inside its try block.
payPalAdaptiveCatch(raised) ==
  IF raised = "PreapprovalExceeded" THEN "ValidationFailed" ELSE "BadRequest"

\* payExpenseWithPayPalAdaptive is returned without await: what it throws
\* does not pass through the catch block of payExpense.  Its own catch block
\* rethrows every error raised after the provider call as a BadRequest, or as
\* a ValidationFailed when the preapproved maximum is exceeded.
payExpenseWithPayPalAdaptive(a) ==
  LET err == IF a = "adaptive:unsupported" \/ AdaptiveRaised(a) = NoError
             THEN AdaptiveRaised(a)
             ELSE payPalAdaptiveCatch(AdaptiveRaised(a))
  IN CASE a = "adaptive:unsupported" -> Outcome(err, "", "", FALSE, FALSE)
       [] a = "adaptive:markAsPaid" -> Outcome(err, "PAID", "", TRUE, FALSE)
       [] a \in {"adaptive:updateBalance", "adaptive:ok"} ->
            Outcome(err, "PAID", "PAID", TRUE, FALSE)
       [] OTHER -> Outcome(err, "", "", TRUE, FALSE)

DispatchPayPal(a) ==
  CASE a \in {"hostCurrency", "noPaypal"} -> Outcome("Error", "", "", FALSE, TRUE)
    [] a = "same:ok" -> Outcome(NoError, "PAID", "PAID", FALSE, FALSE)
    [] a = "same:beforeLedger" -> Outcome(DatabaseError, "", "", FALSE, TRUE)
    [] a = "same:markAsPaid" -> Outcome(DatabaseError, "PAID", "", FALSE, FALSE)
    [] OTHER -> payExpenseWithPayPalAdaptive(a)

\* A bank transfer that is recorded and marked as paid at once.
DispatchBankAccountPaid(a) ==
  CASE a \in {"ott", "noAccount"} -> Outcome("Error", "", "", FALSE, TRUE)
    [] a = "provider" -> Outcome("ProviderError", "", "", TRUE, TRUE)
    [] a \in {"update", "setProcessing"} -> Outcome(DatabaseError, "", "", TRUE, FALSE)
    [] a = "activity" -> Outcome(ActivityError, "PAID", "PAID", TRUE, FALSE)
    [] OTHER -> Outcome(NoError, "PAID", "PAID", TRUE, FALSE)

\* setTransferWiseExpenseAsProcessing is returned without await as well.
DispatchBankAccount(a) ==
  CASE a \in {"ott", "noAccount"} -> Outcome("Error", "", "", FALSE, TRUE)
    [] a = "provider" -> Outcome("ProviderError", "", "", TRUE, TRUE)
    [] a \in {"update", "setProcessing"} -> Outcome(DatabaseError, "", "", TRUE, FALSE)
    [] a = "activity" -> Outcome(ActivityError, "", "PROCESSING", TRUE, FALSE)
    [] OTHER -> Outcome(NoError, "", "PROCESSING", TRUE, FALSE)

\* setTransferWiseExpenseAsProcessing has written the provider's data to
\* expense.data: its expense.update has resolved.
StoresProviderData(branch, a) ==
  branch = "bank" /\ a \in {"ok", "setProcessing", "activity"}

\* Account balance and legacy manual/other: createTransactionsFromPaidExpense,
\* then markAsPaid after the try block.
DispatchInternal(a) ==
  CASE a = "payeeHost" -> Outcome("Error", "", "", FALSE, TRUE)
    [] a = "beforeLedger" -> Outcome(DatabaseError, "", "", FALSE, TRUE)
    [] a = "markAsPaid" -> Outcome(DatabaseError, "PAID", "", FALSE, FALSE)
    [] OTHER -> Outcome(NoError, "PAID", "PAID", FALSE, FALSE)

\* No branch of the dispatch matches: the try block does nothing and
\* markAsPaid follows it.
DispatchUnmatched(a) ==
  IF a = "markAsPaid" THEN Outcome(DatabaseError, "", "", FALSE, FALSE)
  ELSE Outcome(NoError, "", "PAID", FALSE, FALSE)

Dispatch(branch, a) ==
  CASE branch = "forceManual" -> DispatchForceManual(a)
    [] branch = "paypal" -> DispatchPayPal(a)
    [] branch = "bank" -> DispatchBankAccount(a)
    [] branch \in {"balance", "legacy"} -> DispatchInternal(a)
    [] OTHER -> DispatchUnmatched(a)

\* The error raised inside the payout path for an answer of its
\* collaborators, NoError when none is.
Raised(branch, a) ==
  IF branch = "paypal" /\ a \notin {"hostCurrency", "noPaypal", "same:ok",
                                     "same:beforeLedger", "same:markAsPaid"}
  THEN AdaptiveRaised(a)
  ELSE Dispatch(branch, a).err

\* The catch block of payExpense: the cache entry after a failed payout, pre
\* being the entry read before validateExpensePayout2FALimit.
RollbackRollingLimit(entry, pre, amount) ==
  IF pre.set /\ pre.val # 0 THEN Entry(pre.val - amount) ELSE entry

\* ---------------------------------------------------------------------------
\* Initial states
\* ---------------------------------------------------------------------------

SameCurrency ==
  [same |-> TRUE, multiCurrency |-> FALSE, hasStats |-> FALSE, latest |-> 100,
   stddev |-> 0, hostRate |-> 100]

\* Payout method type of the expense and its legacyPayoutMethod.
PayoutSetups ==
  {<<"PAYPAL", "paypal">>, <<"BANK_ACCOUNT", "other">>, <<"ACCOUNT_BALANCE", "other">>,
   <<"OTHER", "manual">>, <<"OTHER", "paypal">>, <<"OTHER", "donation">>}

\* An EXPENSE_AUTHOR_CANNOT_APPROVE policy: amountInCents is the threshold,
\* the two flags are those of a host.
Policy(enabled, amountInCents, hosted, singleAdmin) ==
  [enabled |-> enabled, amountInCents |-> amountInCents,
   appliesToHostedCollectives |-> hosted, appliesToSingleAdminCollectives |-> singleAdmin]

NoPolicy == Policy(FALSE, 0, FALSE, FALSE)

Config(t, author, ps, b, f) ==
  [type |-> t, userId |-> author, hostPolicy |-> NoPolicy, collectivePolicy |-> NoPolicy,
   collectiveAdminCount |-> 2,
   payoutMethodType |-> ps[1], legacyPayoutMethod |-> ps[2],
   balance |-> b, payouts2FA |-> f, rollingLimit |-> HostRollingLimit,
   fx |-> SameCurrency, lockedFields |-> {}]

\* The expenses, collectives and hosts explored by the payout: every payout
\* setup with a balance above the amount, three of them with a balance below
\* it, 2FA payouts enabled where the rolling limit applies, plus a host
\* without 2FA payouts and a settlement expense.
PayoutConfigs ==
  {Config("INVOICE", "author", ps, HighBalance, ps[1] \in {"PAYPAL", "BANK_ACCOUNT"}) :
      ps \in PayoutSetups}
    \cup {Config("INVOICE", "author", ps, LowBalance, ps[1] \in {"PAYPAL", "BANK_ACCOUNT"}) :
            ps \in {<<"PAYPAL", "paypal">>, <<"BANK_ACCOUNT", "other">>, <<"OTHER", "manual">>}}
    \cup {Config("INVOICE", "author", <<"PAYPAL", "paypal">>, HighBalance, FALSE),
          Config("SETTLEMENT", "author", <<"BANK_ACCOUNT", "other">>, LowBalance, FALSE)}

\* Those of an expense that does not exist or whose transfer has failed.
RetryConfigs ==
  {Config("INVOICE", "author", <<"PAYPAL", "paypal">>, HighBalance, TRUE),
   Config("INVOICE", "author", <<"OTHER", "manual">>, HighBalance, FALSE)}

\* Those explored by the whole lifecycle: a settlement paid by bank transfer,
\* an invoice whose payout method matches no dispatch branch, and an invoice
\* submitted by a host admin (who may import it from a transactions import
\* row) and paid manually.
LifecycleConfigs ==
  {Config("SETTLEMENT", "author", <<"BANK_ACCOUNT", "other">>, LowBalance, FALSE),
   Config("INVOICE", "author", <<"OTHER", "paypal">>, HighBalance, FALSE),
   Config("INVOICE", "hadmin", <<"OTHER", "manual">>, HighBalance, FALSE)}

\* Those explored for the rolling limit: an invoice paid with PayPal by a host
\* with 2FA payouts, whose rolling limit is configured or left to the
\* default, in the currency of the host or in another one (a unit of the
\* expense's currency being worth 2 or 200 of the host's).
RollingConfigs ==
  {[Config("INVOICE", "author", <<"PAYPAL", "paypal">>, HighBalance, TRUE)
      EXCEPT !.rollingLimit = lr[1], !.fx.hostRate = lr[2]] :
     lr \in {<<HostRollingLimit, 100>>, <<HostRollingLimit, 200>>, <<0, 20000>>}}

\* The expense is in another currency than the collective: the statistics of
\* the pair, in hundredths, or none.
PairStats(latest, stddev) ==
  [same |-> FALSE, multiCurrency |-> TRUE, hasStats |-> TRUE, latest |-> latest,
   stddev |-> stddev, hostRate |-> 100]

NoPairStats ==
  [same |-> FALSE, multiCurrency |-> TRUE, hasStats |-> FALSE, latest |-> 0,
   stddev |-> 0, hostRate |-> 100]

\* Those explored for the balance check: invoices paid by bank transfer or
\* PayPal, in the currency of the collective with a balance around the amount
\* and the amount plus the fee, or in another currency with a steady, a
\* fluctuating or an erratic rate, or without statistics.
BalanceConfigs ==
  {Config("INVOICE", "author", <<"BANK_ACCOUNT", "other">>, b, FALSE) :
     b \in {ExpenseAmount - 1, ExpenseAmount, ExpenseAmount + ProcessorFee - 1,
            ExpenseAmount + ProcessorFee}}
    \cup {Config("INVOICE", "author", <<"PAYPAL", "paypal">>, ExpenseAmount + ProcessorFee, FALSE)}
    \cup {[Config("INVOICE", "author", <<"BANK_ACCOUNT", "other">>, b, FALSE)
             EXCEPT !.fx = PairStats(100, d)] :
            b \in {LowBalance, ExpenseAmount + ProcessorFee, HighBalance}, d \in {0, 10, 50, 60}}
    \cup {[Config("INVOICE", "author", <<"BANK_ACCOUNT", "other">>, b, FALSE)
             EXCEPT !.fx = NoPairStats] :
            b \in {ExpenseAmount + ProcessorFee, HighBalance}}

\* Those explored for an expense that is approved and then paid manually:
\* invoices of each payout method, one of a collective whose balance does
\* not cover the amount.
ApprovePayConfigs ==
  {Config("INVOICE", "author", <<"OTHER", "manual">>, HighBalance, FALSE),
   Config("INVOICE", "author", <<"PAYPAL", "paypal">>, HighBalance, TRUE),
   Config("INVOICE", "author", <<"BANK_ACCOUNT", "other">>, LowBalance, FALSE)}

NoReq == [user |-> NoUser, scope |-> FALSE]

\* Arguments of payExpense: forceManual with the total declared by the host
\* admin, or an automated payout with the feesPayer argument.
PayArgs ==
  [forceManual : {FALSE}, total : {0}, feesPayer : {"unset", "PAYEE"}]
    \cup [forceManual : {TRUE}, total : {LowTotal, ExpenseAmount}, feesPayer : {"unset"}]

\* Those explored for an expense: a total below the amount is declared only
\* when the balance of the collective has to cover the payout (the expense
\* is not a settlement) and does not cover the amount.
PayArgsExplored ==
  {a \in PayArgs :
     a.total = LowTotal => cfg.balance < ExpenseAmount /\ cfg.type # "SETTLEMENT"}

\* A row of a transactions import, and the row that no expense was created
\* for yet.
Row(st, id) == [status |-> st, ExpenseId |-> id]

PendingRow == Row("PENDING", NONE)

\* TransactionsImportRow.isProcessed.
isProcessed(rowStatus) == rowStatus \in {"LINKED", "IGNORED"}

\* A createExpense call for the row that has not started.  seen: the status
\* of the row as its caller loaded it; expense: the status of the expense it
\* has created, NONE when it has created none; transactions: whether the
\* ledger transactions of a manual payment were created for that expense.
NoImport ==
  [pc |-> "idle", req |-> NoReq, seen |-> "PENDING", expense |-> NONE,
   transactions |-> FALSE, err |-> NoError]

\* A request that is not running.
Idle ==
  [pc |-> "idle", op |-> "-", req |-> NoReq, forceManual |-> FALSE, total |-> 0,
   err |-> NoError, use2FA |-> FALSE, pre |-> Absent]

\* A request that was refused the lock.
Failed(opname, err) == [Idle EXCEPT !.pc = "failed", !.op = opname, !.err = err]

\* A call that returns early or is refused writes nothing: it leaves every
\* variable as it was, which [Next]_vars allows as a stuttering step, so the
\* action takes no step of its own for it.
Refused == FALSE

InitWith(statuses, configs) ==
  /\ status \in statuses
  /\ isLocked = FALSE
  /\ feesPayer = "COLLECTIVE"
  /\ ledger = <<>>
  /\ cache = Absent
  /\ providerCalls = 0
  /\ limited = {}
  /\ recurringExpense = "none"
  /\ onHold = FALSE
  /\ providerData = FALSE
  /\ importRow = PendingRow
  /\ imports = [p \in Procs |-> NoImport]
  /\ draftKey = (IF status = "DRAFT" THEN StoredKey ELSE Undefined)
  /\ expenseAmount = ExpenseAmount
  /\ expenseCurrency = "USD"
  /\ edit = NoEdit
  /\ elsewhere = NoneElsewhere
  /\ cfg \in configs
  /\ proc = [p \in Procs |-> Idle]
  /\ last = NoError

\* An expense that does not exist yet, a draft, or an expense whose transfer
\* has failed.
Init == InitWith({NONE, "DRAFT", "ERROR"}, LifecycleConfigs)

\* An approved expense about to be paid, one whose transfer has failed, or
\* one that does not exist.
InitPayout ==
  \/ InitWith({"APPROVED"}, PayoutConfigs)
  \/ InitWith({NONE, "ERROR"}, RetryConfigs)

\* The host of the expense and the two-factor session of the requests made
\* on it; another host administered by the same user, and another session.
Hosts == {"host", "otherHost"}

Sessions == {"s1", "s2"}

\* An approved expense (or none) about to be paid by a host admin who has
\* paid nothing in the last hour.
InitRolling == InitWith({"APPROVED", NONE}, RollingConfigs)

\* An approved expense (or none) about to be paid, whose fees are paid by
\* the collective, by the payee, or by a payer that is not supported yet.
InitBalance ==
  /\ status \in {"APPROVED", NONE}
  /\ isLocked = FALSE
  /\ feesPayer \in {"COLLECTIVE", "PAYEE", "UNSUPPORTED"}
  /\ ledger = <<>>
  /\ cache = Absent
  /\ providerCalls = 0
  /\ limited = {}
  /\ recurringExpense = "none"
  /\ onHold = FALSE
  /\ providerData = FALSE
  /\ importRow = PendingRow
  /\ imports = [p \in Procs |-> NoImport]
  /\ draftKey = (IF status = "DRAFT" THEN StoredKey ELSE Undefined)
  /\ expenseAmount = ExpenseAmount
  /\ expenseCurrency = "USD"
  /\ edit = NoEdit
  /\ elsewhere = NoneElsewhere
  /\ cfg \in BalanceConfigs
  /\ proc = [p \in Procs |-> Idle]
  /\ last = NoError

\* A pending expense (or none) about to be approved and paid.
InitApprovePay == InitWith({"PENDING", NONE}, ApprovePayConfigs)

\* Those explored for the locked fields: the draft of an invoice, which
\* locks the amount or nothing, for a collective with or without
\* multi-currency expenses.
DraftConfigs ==
  {[Config("INVOICE", "author", <<"OTHER", "manual">>, HighBalance, FALSE)
      EXCEPT !.lockedFields = lf, !.fx.multiCurrency = mc] :
     lf \in {{}, {"AMOUNT"}}, mc \in BOOLEAN}

InitDraft == InitWith({"DRAFT"}, DraftConfigs)

\* Those explored for the approval policy: an invoice submitted by an admin
\* of the collective or of the host, every setting of the two policies with
\* a threshold at the amount or just above it, and a collective of one or
\* two admins.
PolicyConfigs ==
  {[Config("INVOICE", author, <<"OTHER", "manual">>, HighBalance, FALSE)
      EXCEPT !.hostPolicy = hp, !.collectivePolicy = cp, !.collectiveAdminCount = n] :
     author \in {"cadmin", "hadmin"},
     hp \in {Policy(e, t, h, sa) : e \in BOOLEAN, t \in {ExpenseAmount, ExpenseAmount + 1},
                                   h \in BOOLEAN, sa \in BOOLEAN},
     cp \in {Policy(e, t, FALSE, FALSE) : e \in BOOLEAN, t \in {ExpenseAmount, ExpenseAmount + 1}},
     n \in {1, 2}}

InitPolicy == InitWith({"PENDING"}, PolicyConfigs)

\* Those explored for spam marking: an invoice submitted by its author or by
\* the platform user.
SpamConfigs ==
  {Config("INVOICE", author, <<"OTHER", "manual">>, HighBalance, FALSE) :
     author \in {"author", "platform"}}

\* An expense that does not exist yet, a draft or a pending expense, created
\* from a recurring expense or not.
InitSpam ==
  /\ status \in {NONE, "DRAFT", "PENDING"}
  /\ isLocked = FALSE
  /\ feesPayer = "COLLECTIVE"
  /\ ledger = <<>>
  /\ cache = Absent
  /\ providerCalls = 0
  /\ limited = {}
  /\ recurringExpense \in {"none", "linked"}
  /\ onHold = FALSE
  /\ providerData = FALSE
  /\ importRow = PendingRow
  /\ imports = [p \in Procs |-> NoImport]
  /\ draftKey = (IF status = "DRAFT" THEN StoredKey ELSE Undefined)
  /\ expenseAmount = ExpenseAmount
  /\ expenseCurrency = "USD"
  /\ edit = NoEdit
  /\ elsewhere = NoneElsewhere
  /\ cfg \in SpamConfigs
  /\ proc = [p \in Procs |-> Idle]
  /\ last = NoError

\* ---------------------------------------------------------------------------
\* payExpense
\* ---------------------------------------------------------------------------

\* The checks made before lockExpense, which refuse the call, then the
\* acquisition of the lock.
PayExpenseLock(p, req) ==
  /\ proc[p].pc = "idle"
  /\ IF req.user = NoUser \/ ~canUseFeature(req.user) THEN Refused
     ELSE LET err == lockExpenseAcquire(status, isLocked) IN
       IF err = NoError
       THEN /\ isLocked' = TRUE
            /\ proc' = [proc EXCEPT ![p] =
                 [Idle EXCEPT !.pc = "locked", !.op = "payExpense", !.req = req]]
       ELSE /\ proc' = [proc EXCEPT ![p] = Failed("payExpense", err)]
            /\ UNCHANGED isLocked
  /\ UNCHANGED <<status, feesPayer, ledger, cache, providerCalls, limited, recurringExpense, onHold, importRow, imports, providerData, draftKey, expenseAmount, expenseCurrency, edit, elsewhere, cfg, last>>

\* The status read by the callback and what payExpense throws for it.
PayExpenseStatusCheck(st) ==
  IF st = NONE THEN "NotFound"
  ELSE IF st = "PAID" THEN "Forbidden"
  ELSE IF st = "PROCESSING" THEN "Forbidden"
  ELSE IF st # "APPROVED" /\ st # "ERROR" THEN "Forbidden"
  ELSE NoError

use2FARollingLimit(pmt, forceManual, enabled) ==
  pmt \in {"PAYPAL", "BANK_ACCOUNT"} /\ ~forceManual /\ enabled

\* The callback up to the try block: status and permission checks, feesPayer
\* update, balance check and 2FA.
PayExpenseValidate(p, args, fee, twoFactor) ==
  /\ proc[p].pc = "locked"
  /\ proc[p].op = "payExpense"
  /\ LET req == proc[p].req
         pmt == cfg.payoutMethodType
         early ==
           IF PayExpenseStatusCheck(status) # NoError THEN PayExpenseStatusCheck(status)
           ELSE IF canPayExpense(req, status) # OK THEN "Forbidden"
           ELSE IF ~cfg.fx.same /\ ~cfg.fx.multiCurrency THEN "Forbidden"
           ELSE IF cfg.legacyPayoutMethod = "donation" THEN "Error"
           ELSE NoError
         fp == IF early = NoError /\ args.feesPayer # "unset" THEN args.feesPayer ELSE feesPayer
         bal == IF early # NoError THEN early
                ELSE checkHasBalanceToPayExpense(cfg.balance, ExpenseAmount, cfg.type, fp, pmt,
                       args.forceManual, args.total, fee, cfg.fx)
         rolling == use2FARollingLimit(pmt, args.forceManual, cfg.payouts2FA)
         v == validateExpensePayout2FALimit(cache, Round(ExpenseAmount * cfg.fx.hostRate, 100),
                                            RollingLimit(cfg.rollingLimit), twoFactor)
         err == IF bal # NoError THEN bal
                ELSE IF rolling THEN v.err
                ELSE IF twoFactor = "refused" THEN "TwoFactorError"
                ELSE NoError
     IN /\ feesPayer' = fp
        /\ cache' = IF bal = NoError /\ rolling THEN v.entry ELSE cache
        /\ proc' = [proc EXCEPT ![p] =
             IF err = NoError
             THEN [Idle EXCEPT !.pc = "validated", !.op = "payExpense", !.req = req,
                               !.forceManual = args.forceManual, !.total = args.total,
                               !.use2FA = rolling, !.pre = IF rolling THEN cache ELSE Absent]
             ELSE [Idle EXCEPT !.pc = "unlock", !.op = "payExpense", !.err = err]]
  /\ UNCHANGED <<status, isLocked, ledger, providerCalls, limited, recurringExpense, onHold, importRow, imports, providerData, draftKey, expenseAmount, expenseCurrency, edit, elsewhere, cfg, last>>

\* The try block, its catch block and markAsPaid.
PayExpenseDispatch(p, a) ==
  /\ proc[p].pc = "validated"
  /\ LET branch == Branch(proc[p].forceManual, cfg.payoutMethodType, cfg.legacyPayoutMethod)
         o == Dispatch(branch, a)
     IN /\ a \in Answers(branch)
        /\ o.tx # "" => Len(ledger) < MaxTransactions
        /\ o.called => providerCalls < MaxProviderCalls
        /\ ledger' = IF o.tx = "MANUAL" THEN Append(ledger, ManualTx(proc[p].total))
                     ELSE IF o.tx # "" THEN Append(ledger, Tx(o.tx))
                     ELSE ledger
        /\ status' = IF o.st # "" THEN o.st ELSE status
        /\ providerCalls' = IF o.called THEN providerCalls + 1 ELSE providerCalls
        /\ cache' = IF o.err # NoError /\ o.caught /\ proc[p].use2FA
                    THEN RollbackRollingLimit(cache, proc[p].pre, ExpenseAmount)
                    ELSE cache
        /\ proc' = [proc EXCEPT ![p] =
             [Idle EXCEPT !.pc = "unlock", !.op = "payExpense", !.err = o.err]]
        /\ providerData' = (providerData \/ StoresProviderData(branch, a))
  /\ UNCHANGED <<isLocked, feesPayer, limited, recurringExpense, onHold, importRow, imports, draftKey, expenseAmount, expenseCurrency, edit, elsewhere, cfg, last>>

\* The finally block of lockExpense, after which the request ends.  After
\* its callback has returned, markExpenseAsUnpaid awaits
\* expense.createActivity, which resolves or rejects.
Unlock(p) ==
  /\ proc[p].pc = "unlock"
  /\ isLocked' = lockExpenseRelease(isLocked, proc[p].err)
  /\ proc' = [proc EXCEPT ![p] = Idle]
  /\ last' \in IF proc[p].op = "markExpenseAsUnpaid" /\ proc[p].err = NoError
               THEN {last, ActivityError} ELSE {last}
  /\ UNCHANGED <<status, feesPayer, ledger, cache, providerCalls, limited, recurringExpense, onHold, importRow, imports, providerData, draftKey, expenseAmount, expenseCurrency, edit, elsewhere, cfg>>

\* A request that was refused the lock ends.
Return(p) ==
  /\ proc[p].pc = "failed"
  /\ proc' = [proc EXCEPT ![p] = Idle]
  /\ UNCHANGED <<status, isLocked, feesPayer, ledger, cache, providerCalls, limited, recurringExpense, onHold, importRow, imports, providerData, draftKey, expenseAmount, expenseCurrency, edit, elsewhere, cfg, last>>

\* ---------------------------------------------------------------------------
\* markExpenseAsUnpaid
\* ---------------------------------------------------------------------------

markExpenseAsUnpaidLock(p, req) ==
  /\ proc[p].pc = "idle"
  /\ LET err == lockExpenseAcquire(status, isLocked) IN
       IF err = NoError
       THEN /\ isLocked' = TRUE
            /\ proc' = [proc EXCEPT ![p] =
                 [Idle EXCEPT !.pc = "locked", !.op = "markExpenseAsUnpaid", !.req = req]]
       ELSE /\ proc' = [proc EXCEPT ![p] = Failed("markExpenseAsUnpaid", err)]
            /\ UNCHANGED isLocked
  /\ UNCHANGED <<status, feesPayer, ledger, cache, providerCalls, limited, recurringExpense, onHold, importRow, imports, providerData, draftKey, expenseAmount, expenseCurrency, edit, elsewhere, cfg, last>>

UnpaidStatuses == {"APPROVED", "ERROR", "INCOMPLETE"}

\* The status asked for by the caller, or "unset" when the argument is left out.
UnpaidArgs == UnpaidStatuses \cup {"unset"}

newExpenseStatus(markAsUnPaidStatus) ==
  IF markAsUnPaidStatus = "unset" THEN "APPROVED" ELSE markAsUnPaidStatus

\* The callback.  how: "ok", "refund" when the refund cannot be created, or
\* "update" when expense.update rejects after the refund.
markExpenseAsUnpaidBody(p, markAsUnPaidStatus, how) ==
  /\ proc[p].pc = "locked"
  /\ proc[p].op = "markExpenseAsUnpaid"
  /\ LET req == proc[p].req
         early ==
           IF req.user = NoUser THEN "Unauthorized"
           ELSE IF ~canUseFeature(req.user) THEN "FeatureNotAllowedForUser"
           ELSE IF status = NONE THEN "NotFound"
           ELSE IF canMarkAsUnpaid(req, status) # OK THEN "Forbidden"
           ELSE IF status # "PAID" THEN "Forbidden"
           ELSE IF LiveTransactions(ledger) = 0 THEN "TypeError"
           ELSE IF how = "refund" THEN DatabaseError
           ELSE NoError
         err == IF early # NoError THEN early
                ELSE IF how = "update" THEN DatabaseError
                ELSE NoError
     IN /\ early = NoError => Len(ledger) < MaxTransactions
        /\ ledger' = IF early = NoError THEN Append(ledger, Tx("REFUND")) ELSE ledger
        /\ status' = IF err = NoError THEN newExpenseStatus(markAsUnPaidStatus) ELSE status
        /\ proc' = [proc EXCEPT ![p] =
             [Idle EXCEPT !.pc = "unlock", !.op = "markExpenseAsUnpaid", !.err = err]]
  /\ UNCHANGED <<isLocked, feesPayer, cache, providerCalls, limited, recurringExpense, onHold, importRow, imports, providerData, draftKey, expenseAmount, expenseCurrency, edit, elsewhere, cfg, last>>

\* ---------------------------------------------------------------------------
\* Status transitions made outside the lock
\* ---------------------------------------------------------------------------

\* What every call outside the lock leaves alone.
Rest ==
  <<isLocked, feesPayer, ledger, cache, providerCalls, providerData, importRow, imports,
    cfg, proc, edit, elsewhere>>

\* The call returns or throws err, leaving the expense in status st; err is
\* recorded in last when the call wrote something.
Completes(err, st, wrote) ==
  /\ status' = st
  /\ last' = IF wrote THEN err ELSE last

\* The call has written the status st and awaits expense.createActivity,
\* which resolves or rejects; nothing catches its rejection.
Emits(st) == \E err \in {NoError, ActivityError} : Completes(err, st, TRUE)

approveExpense(req) ==
  /\ status # NONE
  /\ IF status = "APPROVED" THEN Refused
     ELSE IF canApprove(req, status) # OK THEN Refused
     ELSE Emits("APPROVED")
  /\ UNCHANGED <<Rest, limited, recurringExpense, onHold, draftKey, expenseAmount, expenseCurrency>>

unapproveExpense(req) ==
  /\ status # NONE
  /\ IF status = "PENDING" THEN Refused
     ELSE IF canUnapprove(req, status) # OK THEN Refused
     ELSE Emits("PENDING")
  /\ UNCHANGED <<Rest, limited, recurringExpense, onHold, draftKey, expenseAmount, expenseCurrency>>

requestExpenseReApproval(req) ==
  /\ status # NONE
  /\ IF status = "PENDING" THEN Refused
     ELSE IF canUnapprove(req, status) # OK THEN Refused
     ELSE Emits("PENDING")
  /\ UNCHANGED <<Rest, limited, recurringExpense, onHold, draftKey, expenseAmount, expenseCurrency>>

\* markExpenseAsIncomplete without the onHold: false of its update.
markExpenseAsIncompleteKeepsHold(req) ==
  /\ status # NONE
  /\ IF status = "INCOMPLETE" THEN Refused
     ELSE IF canMarkAsIncomplete(req, status) # OK THEN Refused
     ELSE Emits("INCOMPLETE") /\ onHold' = onHold
  /\ UNCHANGED <<Rest, limited, recurringExpense, draftKey, expenseAmount, expenseCurrency>>

markExpenseAsIncomplete(req) ==
  /\ status # NONE
  /\ IF status = "INCOMPLETE" THEN Refused
     ELSE IF canMarkAsIncomplete(req, status) # OK THEN Refused
     ELSE Emits("INCOMPLETE") /\ onHold' = FALSE
  /\ UNCHANGED <<Rest, limited, recurringExpense, draftKey, expenseAmount, expenseCurrency>>

holdExpense(req) ==
  /\ status # NONE
  /\ IF req.user = NoUser THEN Refused
     ELSE IF canPutOnHold(req, status, onHold) # OK THEN Refused
     ELSE Emits(status) /\ onHold' = TRUE
  /\ UNCHANGED <<Rest, limited, recurringExpense, draftKey, expenseAmount, expenseCurrency>>

releaseExpense(req) ==
  /\ status # NONE
  /\ IF req.user = NoUser THEN Refused
     ELSE IF canReleaseHold(req, onHold) # OK THEN Refused
     ELSE Emits(status) /\ onHold' = FALSE
  /\ UNCHANGED <<Rest, limited, recurringExpense, draftKey, expenseAmount, expenseCurrency>>

rejectExpense(req) ==
  /\ status # NONE
  /\ IF status = "REJECTED" THEN Refused
     ELSE IF canReject(req, status) # OK THEN Refused
     ELSE Emits("REJECTED")
  /\ UNCHANGED <<Rest, limited, recurringExpense, onHold, draftKey, expenseAmount, expenseCurrency>>

declineInvitedExpense(req, keyMatches) ==
  /\ status # NONE
  /\ IF status = "INVITE_DECLINED" THEN Refused
     ELSE IF canDeclineExpenseInvite(req, status, keyMatches) # OK THEN Refused
     ELSE Emits("INVITE_DECLINED")
  /\ UNCHANGED <<Rest, limited, recurringExpense, onHold, draftKey, expenseAmount, expenseCurrency>>

\* how: "ok", "limitFeature" when limiting the submitter rejects after the
\* status has been written, or "activity" when createActivity rejects at the
\* end.
markExpenseAsSpam(req, how) ==
  /\ status # NONE
  /\ IF status = "SPAM" THEN Refused /\ UNCHANGED <<limited, recurringExpense>>
     ELSE IF canMarkAsSpam(req, status) # OK
       THEN Refused /\ UNCHANGED <<limited, recurringExpense>>
     ELSE IF how = "limitFeature"
       THEN Completes(DatabaseError, "SPAM", TRUE) /\ UNCHANGED <<limited, recurringExpense>>
     ELSE /\ Completes(IF how = "activity" THEN ActivityError ELSE NoError, "SPAM", TRUE)
          /\ limited' = limited \cup {cfg.userId}
          /\ recurringExpense' = IF recurringExpense = "linked" THEN "deleted"
                                 ELSE recurringExpense
  /\ UNCHANGED <<Rest, onHold, draftKey, expenseAmount, expenseCurrency>>

\* how: "ok", or "provider" when Wise refuses.
unscheduleExpensePayment(req, how) ==
  /\ status # NONE
  /\ IF canUnschedulePayment(req, status) # OK THEN Refused
     ELSE IF cfg.payoutMethodType = "BANK_ACCOUNT" /\ how = "provider" THEN Refused
     ELSE Emits("APPROVED")
  /\ UNCHANGED <<Rest, limited, recurringExpense, onHold, draftKey, expenseAmount, expenseCurrency>>

\* how: "ok", "provider" when Wise refuses the batch, or "noAccount" when the
\* host has no PayPal account.
scheduleExpenseForPayment(req, feesPayerArg, twoFactor, how) ==
  /\ status # NONE
  /\ LET pmt == cfg.payoutMethodType
         allowed == status # "SCHEDULED_FOR_PAYMENT" /\ canPayExpense(req, status) = OK
                      /\ (cfg.fx.same \/ cfg.fx.multiCurrency)
         fp == IF allowed /\ feesPayerArg # "unset" THEN feesPayerArg ELSE feesPayer
         bal == checkHasBalanceToPayExpense(cfg.balance, ExpenseAmount, cfg.type, fp, pmt,
                  FALSE, 0, 0, cfg.fx)
         rolling == pmt = "PAYPAL" /\ cfg.payouts2FA
         v == validateExpensePayout2FALimit(cache, Round(ExpenseAmount * cfg.fx.hostRate, 100),
                                            RollingLimit(cfg.rollingLimit), twoFactor)
         early ==
           IF status = "SCHEDULED_FOR_PAYMENT" THEN "BadRequest"
           ELSE IF canPayExpense(req, status) # OK THEN "Forbidden"
           ELSE IF ~cfg.fx.same /\ ~cfg.fx.multiCurrency THEN "Forbidden"
           ELSE bal
         err ==
           IF early # NoError THEN early
           ELSE IF rolling /\ v.err # NoError THEN v.err
           ELSE IF pmt = "BANK_ACCOUNT" /\ how = "provider" THEN "ProviderError"
           ELSE IF pmt = "PAYPAL" /\ how = "noAccount" THEN "Error"
           ELSE NoError
         entry == IF early = NoError /\ rolling THEN v.entry ELSE cache
     IN IF err # NoError /\ entry = cache /\ fp = feesPayer THEN Refused
        ELSE /\ cache' = entry
             /\ feesPayer' = fp
             /\ Completes(err, IF err = NoError THEN "SCHEDULED_FOR_PAYMENT" ELSE status,
                          TRUE)
  /\ UNCHANGED <<isLocked, ledger, providerCalls, cfg, proc, limited, recurringExpense, onHold, importRow, imports, providerData, draftKey, expenseAmount, expenseCurrency, edit, elsewhere>>

\* how: "ok", "invalid" when the input is refused, "ledger" when the ledger
\* transactions cannot be created, or "markAsPaid" when marking as paid fails.
createExpense(req, withRow, how) ==
  /\ status = NONE
  /\ req.user \in {NoUser, cfg.userId}
  /\ how \in {"ledger", "markAsPaid"} => withRow
  /\ LET early ==
         IF req.user = NoUser THEN "Unauthorized"
         ELSE IF ~canUseFeature(req.user) THEN "FeatureNotAllowedForUser"
         ELSE IF how = "invalid" THEN "ValidationFailed"
         ELSE IF withRow /\ req.user # "hadmin" THEN "Forbidden"
         ELSE IF withRow /\ isProcessed(importRow.status) THEN "ValidationFailed"
         ELSE NoError
     IN IF early # NoError THEN Refused /\ UNCHANGED <<ledger, importRow>>
        ELSE IF ~withRow
        THEN Completes(NoError, "PENDING", TRUE) /\ UNCHANGED <<ledger, importRow>>
        ELSE /\ importRow' = Row("LINKED", "expense")
             /\ IF how = "ledger"
                THEN Completes(DatabaseError, "PENDING", TRUE) /\ UNCHANGED ledger
                ELSE /\ Len(ledger) < MaxTransactions
                     /\ ledger' = Append(ledger, ManualTx(ExpenseAmount))
                     /\ IF how = "markAsPaid"
                        THEN Completes(DatabaseError, "PENDING", TRUE)
                        ELSE Completes(NoError, "PAID", TRUE)
  /\ UNCHANGED <<isLocked, feesPayer, cache, providerCalls, cfg, proc, limited, recurringExpense, onHold, imports, providerData, draftKey, expenseAmount, expenseCurrency, edit, elsewhere>>

\* The caller of createExpense loads the row of the import that it passes
\* as expenseData.transactionsImportRow.
createExpenseLoadRow(p, req) ==
  /\ imports[p].pc = "idle"
  /\ imports' = [imports EXCEPT ![p] =
       [NoImport EXCEPT !.pc = "loaded", !.req = req, !.seen = importRow.status]]
  /\ UNCHANGED <<status, isLocked, feesPayer, ledger, cache, providerCalls, limited,
                 recurringExpense, onHold, importRow, providerData, draftKey, expenseAmount,
                 expenseCurrency, edit, elsewhere, cfg, proc, last>>

\* createExpense for the row it was given, which creates an expense of its
\* own.  how: "ok", "invalid" when the input is refused, "import" when the
\* import of the row is not found or is not the host's, "activity" when
\* createActivity rejects, "ledger" when the ledger transactions cannot be
\* created, or "markAsPaid" when marking as paid fails.
createExpenseForRow(p, how) ==
  /\ imports[p].pc = "loaded"
  /\ LET req == imports[p].req
         early ==
           IF req.user = NoUser THEN "Unauthorized"
           ELSE IF ~canUseFeature(req.user) THEN "FeatureNotAllowedForUser"
           ELSE IF how = "invalid" THEN "ValidationFailed"
           ELSE IF req.user # "hadmin" THEN "Forbidden"
           ELSE IF isProcessed(imports[p].seen) THEN "ValidationFailed"
           ELSE IF how = "import" THEN "NotFound"
           ELSE NoError
         err == IF early # NoError THEN early
                ELSE IF how = "activity" THEN ActivityError
                ELSE IF how \in {"ledger", "markAsPaid"} THEN DatabaseError
                ELSE NoError
     IN /\ importRow' = IF early = NoError THEN Row("LINKED", p) ELSE importRow
        /\ imports' = [imports EXCEPT ![p] =
             [@ EXCEPT !.pc = "done",
                       !.expense = IF early # NoError THEN NONE
                                   ELSE IF err = NoError THEN "PAID" ELSE "PENDING",
                       !.transactions = early = NoError /\ how \in {"ok", "markAsPaid"},
                       !.err = err]]
  /\ UNCHANGED <<status, isLocked, feesPayer, ledger, cache, providerCalls, limited,
                 recurringExpense, onHold, providerData, draftKey, expenseAmount,
                 expenseCurrency, edit, elsewhere, cfg, proc, last>>

\* What an edit changes: only the description, the items, the amount, or the
\* payout method.
Changes == {"description", "items", "amount", "payout"}

\* What an edit of a paid charge changes: the items, to attach a receipt,
\* alone or with an amount field that differs from the amount of the expense.
ChargeChanges == {"items", "itemsAndAmount"}

hasItemChanges(change) == change \in {"items", "total", "itemsAndAmount"}

changesAmountField(change) == change \in {"amount", "itemsAndAmount"}

changesRequireStatusUpdate(etype, st, hasItemsChanges, hasAmountChanges, hasPayoutChanges) ==
  IF etype = "CHARGE" /\ st \in {"PAID", "PROCESSING"} /\ ~hasAmountChanges THEN FALSE
  ELSE hasItemsChanges \/ hasAmountChanges \/ hasPayoutChanges

\* The status written by editExpense.
EditedStatus(etype, st, change) ==
  IF st = "INCOMPLETE"
  THEN IF changesRequireStatusUpdate(etype, st, hasItemChanges(change),
                                     changesAmountField(change), FALSE)
       THEN "PENDING" ELSE "APPROVED"
  ELSE IF changesRequireStatusUpdate(etype, st, hasItemChanges(change),
                                     changesAmountField(change), change = "payout")
  THEN "PENDING"
  ELSE st

\* What editExpense throws, if anything, before it writes.
EditError(user, req, st, change, skipPermissionCheck) ==
  IF user = NoUser THEN "Unauthorized"
  ELSE IF ~canUseFeature(user) THEN "FeatureNotAllowedForUser"
  ELSE IF st = NONE THEN "NotFound"
  ELSE IF ~skipPermissionCheck /\ canEditExpense(req, st) # OK THEN "Forbidden"
  ELSE IF cfg.type = "CHARGE" /\ st \in {"PAID", "PROCESSING"} /\ ~hasItemChanges(change)
    THEN "ValidationFailed"
  ELSE NoError

\* The currency of the collective, and another one.
Currencies == {"USD", "EUR"}

OtherCurrency(c) == IF c = "USD" THEN "EUR" ELSE "USD"

\* A total other than the amount a.
OtherAmount(a) == IF a = ExpenseAmount THEN 2 * ExpenseAmount ELSE ExpenseAmount

\* What an edit of the amount or of the currency changes: the items, which
\* sum up to another total, or the currency.
AmountChanges == {"total", "currency"}

\* The expenseData of an edit: its amount and currency fields, absent ({})
\* or given, and the total of its items (that of the expense when the
\* items are left alone).
ExpenseData(change) ==
  [amount |-> IF changesAmountField(change) THEN {OtherAmount(expenseAmount)} ELSE {},
   currency |-> IF change = "currency" THEN {OtherCurrency(expenseCurrency)} ELSE {},
   total |-> IF change = "total" THEN OtherAmount(expenseAmount) ELSE expenseAmount]

\* value is the field of expenseData, absent or given.
isValueChanging(existing, value) == value # {} /\ value # {existing}

\* checkLockedFields, for the field AMOUNT.
checkLockedFields(lockedFields, updatedAmount, updatedCurrency) ==
  IF lockedFields = {} THEN NoError
  ELSE IF "AMOUNT" \in lockedFields /\ isValueChanging(expenseAmount, updatedAmount)
    THEN "Forbidden"
  ELSE IF "AMOUNT" \in lockedFields /\ isValueChanging(expenseCurrency, updatedCurrency)
    THEN "Forbidden"
  ELSE NoError

\* What editExpense throws after its permission checks, if anything, before
\* it writes: the currency is not supported, or a locked field is edited.
\* The amount checked is the total of the items.
EditLockedError(data) ==
  IF data.currency \notin {{}, {expenseCurrency}, {"USD"}} /\ ~cfg.fx.multiCurrency
    THEN "FeatureNotSupportedForCollective"
  ELSE checkLockedFields(cfg.lockedFields, {data.total}, data.currency)

\* The row written by an edit that persists the total of the items and,
\* when withCurrency, the currency.
Edited(err, st, data, withCurrency) ==
  LET newCurrency == IF withCurrency /\ data.currency # {}
                     THEN CHOOSE c \in data.currency : TRUE ELSE expenseCurrency
  IN /\ Completes(err, st, st # status \/ data.total # expenseAmount
                              \/ newCurrency # expenseCurrency)
     /\ expenseAmount' = data.total
     /\ expenseCurrency' = newCurrency

editExpense(req, change) ==
  /\ LET data == ExpenseData(change)
     IN IF EditError(req.user, req, status, change, FALSE) # NoError
          THEN Refused /\ UNCHANGED <<expenseAmount, expenseCurrency, draftKey>>
        ELSE IF EditLockedError(data) # NoError
          THEN Refused /\ UNCHANGED <<expenseAmount, expenseCurrency, draftKey>>
        ELSE Edited(NoError, EditedStatus(cfg.type, status, change), data, TRUE)
               /\ draftKey' = Undefined
  /\ UNCHANGED <<Rest, limited, recurringExpense, onHold>>

\* editExpenseDraft: the fields checked against the locked ones are those of
\* expenseData, the amount written is the total of the items, and the
\* currency is not among the fields written.
editExpenseDraft(req, change) ==
  /\ LET data == ExpenseData(change)
         early ==
           IF status = NONE THEN "NotFound"
           ELSE IF status # "DRAFT" THEN "Unauthorized"
           ELSE IF req.user = NoUser \/ req.user # cfg.userId THEN "Unauthorized"
           ELSE checkLockedFields(cfg.lockedFields, data.amount, data.currency)
     IN IF early # NoError THEN Refused /\ UNCHANGED <<expenseAmount, expenseCurrency, draftKey>>
        ELSE Edited(NoError, status, data, FALSE) /\ UNCHANGED draftKey
  /\ UNCHANGED <<Rest, limited, recurringExpense, onHold>>

\* payee: "requested" when the draft is submitted for an existing profile,
\* "newMatching" / "newOther" when a user is created for the payee with the
\* invited email or another one, "exists" when that user exists already.
submitExpenseDraft(req, keyMatches, payee, change) ==
  /\ LET override == payee \in {"newMatching", "newOther"}
         data == ExpenseData(change)
         early ==
           IF status = NONE THEN "NotFound"
           ELSE IF status # "DRAFT" THEN "Forbidden"
           ELSE IF ~keyMatches /\ ~isDraftPayee(req) /\ ~isOwner(req) THEN "Unauthorized"
           ELSE IF checkLockedFields(cfg.lockedFields, data.amount, data.currency) # NoError
             THEN "Forbidden"
           ELSE IF payee = "requested" /\ ~isDraftPayee(req) THEN "Forbidden"
           ELSE IF payee = "exists" THEN "Error"
           ELSE IF EditError(IF override THEN "invitee" ELSE req.user, req, status, change,
                             TRUE) # NoError
             THEN EditError(IF override THEN "invitee" ELSE req.user, req, status, change, TRUE)
           ELSE EditLockedError(data)
         submitted ==
           IF override /\ keyMatches /\ payee = "newMatching" THEN "PENDING"
           ELSE IF override THEN "UNVERIFIED"
           ELSE EditedStatus(cfg.type, status, change)
     IN IF early # NoError THEN Refused /\ UNCHANGED <<expenseAmount, expenseCurrency, draftKey>>
        ELSE Edited(NoError, submitted, data, TRUE) /\ draftKey' = Undefined
  /\ UNCHANGED <<Rest, limited, recurringExpense, onHold>>

\* The steps of the payExpense requests ps.
PayRequests(ps) ==
  \/ \E p \in ps, req \in Reqs : PayExpenseLock(p, req)
  \/ \E p \in ps, args \in PayArgsExplored, fee \in {0, ProcessorFee},
        twoFactor \in TwoFactorAnswers :
       PayExpenseValidate(p, args, fee, twoFactor)
  \/ \E p \in ps, a \in Answers("paypal") \cup Answers("forceManual") \cup Answers("bank")
                       \cup Answers("balance") : PayExpenseDispatch(p, a)
  \/ \E p \in ps : Unlock(p)
  \/ \E p \in ps : Return(p)

\* The steps of the markExpenseAsUnpaid requests ps, which end as those of
\* payExpense do.
UnpaidRequests(ps) ==
  \/ \E p \in ps, req \in Reqs : markExpenseAsUnpaidLock(p, req)
  \/ \E p \in ps, st \in UnpaidArgs, how \in {"ok", "refund", "update"} :
       markExpenseAsUnpaidBody(p, st, how)

\* editExpense up to the end of its checks: the expense is loaded, with its
\* data, and the values to write are computed from what was loaded.
editExpenseLoad(req, change) ==
  /\ edit.pc = "idle"
  /\ EditError(req.user, req, status, change, FALSE) = NoError
  /\ EditLockedError(ExpenseData(change)) = NoError
  /\ edit' = [pc |-> "loaded", op |-> "editExpense",
              status |-> EditedStatus(cfg.type, status, change), isLocked |-> isLocked,
              amount |-> ExpenseData(change).total, currency |-> expenseCurrency]
  /\ UNCHANGED <<status, isLocked, feesPayer, ledger, cache, providerCalls, limited,
                 recurringExpense, onHold, importRow, imports, providerData, draftKey, expenseAmount, expenseCurrency, cfg, elsewhere, proc, last>>

\* expense.update(updatedExpenseProps): the status, the amount and the data
\* computed from the expense as it was loaded are written.
editExpenseUpdate ==
  /\ edit.pc = "loaded"
  /\ edit.op = "editExpense"
  /\ status' = edit.status
  /\ isLocked' = edit.isLocked
  /\ expenseAmount' = edit.amount
  /\ expenseCurrency' = edit.currency
  /\ last' = NoError
  /\ draftKey' = Undefined
  /\ edit' = NoEdit
  /\ UNCHANGED <<feesPayer, ledger, cache, providerCalls, limited, recurringExpense, onHold, importRow, imports, providerData, cfg,
                 elsewhere, proc>>

\* editExpenseDraft up to the end of its checks.
editExpenseDraftLoad(req, change) ==
  /\ edit.pc = "idle"
  /\ status = "DRAFT"
  /\ req.user # NoUser /\ req.user = cfg.userId
  /\ checkLockedFields(cfg.lockedFields, ExpenseData(change).amount,
                       ExpenseData(change).currency) = NoError
  /\ edit' = [pc |-> "loaded", op |-> "editExpenseDraft", status |-> status,
              isLocked |-> isLocked, amount |-> ExpenseData(change).total,
              currency |-> expenseCurrency]
  /\ UNCHANGED <<status, isLocked, feesPayer, ledger, cache, providerCalls, limited,
                 recurringExpense, onHold, importRow, imports, providerData, draftKey, expenseAmount, expenseCurrency, cfg, elsewhere, proc, last>>

\* existingExpense.update({...newExpenseValues, data: {...existingExpense.data,
\* ...newExpenseValues.data}}): the amount and the data are written, the
\* status is not.
editExpenseDraftUpdate ==
  /\ edit.pc = "loaded"
  /\ edit.op = "editExpenseDraft"
  /\ isLocked' = edit.isLocked
  /\ expenseAmount' = edit.amount
  /\ last' = NoError
  /\ edit' = NoEdit
  /\ UNCHANGED <<status, feesPayer, ledger, cache, providerCalls, limited,
                 recurringExpense, onHold, importRow, imports, providerData, draftKey, expenseCurrency, cfg, elsewhere, proc>>

\* An approved expense about to be paid, or a draft.
InitEditRace == InitWith({"APPROVED", "DRAFT"}, RetryConfigs)

\* A request that pays the expense while it is edited.
NextEditRace ==
  \/ PayRequests({"r1"})
  \/ \E req \in Reqs, change \in {"description", "items"} : editExpenseLoad(req, change)
  \/ editExpenseUpdate
  \/ \E req \in Reqs, change \in {"description", "items"} : editExpenseDraftLoad(req, change)
  \/ editExpenseDraftUpdate

SpecEditRace == InitEditRace /\ [][NextEditRace]_vars

\* The server stops while request p is between the acquisition of the lock
\* and the end of the finally block: the request is gone and nothing more
\* is written for it.
Crash(p) ==
  /\ proc[p].pc \notin {"idle", "failed"}
  /\ proc' = [proc EXCEPT ![p] = Idle]
  /\ UNCHANGED <<status, isLocked, feesPayer, ledger, cache, providerCalls, limited,
                 recurringExpense, onHold, importRow, imports, providerData, draftKey, expenseAmount, expenseCurrency, edit, elsewhere, cfg, last>>

\* An approved expense about to be paid.
InitCrash == InitWith({"APPROVED"}, RetryConfigs)

\* Requests that pay the expense or mark it as unpaid, any of which the
\* server may not survive.
NextCrash ==
  \/ PayRequests(Procs)
  \/ UnpaidRequests(Procs)
  \/ \E p \in Procs : Crash(p)

SpecCrash == InitCrash /\ [][NextCrash]_vars

\* Two payExpense requests race for the lock of an expense, which the first
\* of them may also mark as unpaid.
NextPayout == PayRequests(Procs) \/ UnpaidRequests({"r1"})

SpecPayout == InitPayout /\ [][NextPayout]_vars

\* The host admin pays an expense of a host in a two-factor session, as far
\* as validateExpensePayout2FALimit: the entry under the key of that call is
\* read and written.  cache is the entry under the key of the payouts made
\* for the host of the expense in session s1.
payExpenseElsewhere(hostId, sessionId, twoFactor) ==
  /\ <<hostId, sessionId>> # <<"host", "s1">>
  /\ totalPaidExpensesAmountKey("hadmin", hostId, sessionId)
       = totalPaidExpensesAmountKey("hadmin", "host", "s1")
  /\ LET v == validateExpensePayout2FALimit(cache, Round(ExpenseAmount * cfg.fx.hostRate, 100),
                                            RollingLimit(cfg.rollingLimit), twoFactor)
     IN /\ v.err = NoError
        /\ cache' = v.entry
  /\ UNCHANGED <<status, isLocked, feesPayer, ledger, providerCalls, limited, recurringExpense, onHold, importRow, imports, providerData, draftKey, expenseAmount, expenseCurrency, edit, elsewhere, cfg, proc, last>>

\* The host admin pays another expense of the host, request p:
\* validateExpensePayout2FALimit reads the entry (await cache.get).
payExpenseElsewhereRead(p) ==
  /\ elsewhere.read[p].pc = "idle"
  /\ elsewhere' = [elsewhere EXCEPT !.read[p] = [pc |-> "read", entry |-> cache]]
  /\ UNCHANGED <<status, isLocked, feesPayer, ledger, cache, providerCalls, limited,
                 recurringExpense, onHold, importRow, imports, providerData, draftKey, expenseAmount, expenseCurrency, edit, cfg, proc, last>>

\* Request p goes on after its awaits: the check is made on the entry it
\* has read and, when it passes, the entry is written (cache.set).  sum adds
\* up the amounts that have passed without a token since the last token was
\* presented; the payouts stop once it is over the limit.
payExpenseElsewhereWrite(p, twoFactor) ==
  /\ elsewhere.read[p].pc = "read"
  /\ elsewhere.sum <= RollingLimit(cfg.rollingLimit)
  /\ LET amountInHost == Round(ExpenseAmount * cfg.fx.hostRate, 100)
         v == validateExpensePayout2FALimit(elsewhere.read[p].entry, amountInHost,
                                            RollingLimit(cfg.rollingLimit), twoFactor)
     IN /\ cache' = IF v.err = NoError THEN v.entry ELSE cache
        /\ elsewhere' =
             [elsewhere EXCEPT
                !.read[p] = [pc |-> "idle", entry |-> Absent],
                !.sum = IF v.err # NoError THEN @
                        ELSE IF twoFactor = "passed" THEN 0
                        ELSE @ + amountInHost]
  /\ UNCHANGED <<status, isLocked, feesPayer, ledger, providerCalls, limited,
                 recurringExpense, onHold, importRow, imports, providerData, draftKey, expenseAmount, expenseCurrency, edit, cfg, proc, last>>

\* An invoice paid with PayPal by a host with 2FA payouts and a configured
\* rolling limit.
InitLimitRace ==
  InitWith({"APPROVED"}, {c \in RollingConfigs : c.rollingLimit = HostRollingLimit})

\* Payouts of other expenses by the same host admin, which run concurrently.
NextLimitRace ==
  \/ \E p \in Procs : payExpenseElsewhereRead(p)
  \/ \E p \in Procs, twoFactor \in TwoFactorAnswers : payExpenseElsewhereWrite(p, twoFactor)

SpecLimitRace == InitLimitRace /\ [][NextLimitRace]_vars

\* The payouts that go through the rolling limit: payExpense and
\* scheduleExpenseForPayment on the expense, and the payouts made by the same
\* host admin for another host or in another session.
NextRolling ==
  \/ PayRequests({"r1"})
  \/ \E req \in Reqs, feesPayerArg \in {"unset", "PAYEE"}, twoFactor \in TwoFactorAnswers,
        how \in {"ok", "provider", "noAccount"} :
       scheduleExpenseForPayment(req, feesPayerArg, twoFactor, how)
  \/ \E req \in Reqs, how \in {"ok", "provider"} : unscheduleExpensePayment(req, how)
  \/ \E hostId \in Hosts, sessionId \in Sessions, twoFactor \in TwoFactorAnswers :
       payExpenseElsewhere(hostId, sessionId, twoFactor)

SpecRolling == InitRolling /\ [][NextRolling]_vars

\* The payouts of an expense, one at a time, over the balances and exchange
\* rates that the balance check looks at.
NextBalance == PayRequests({"r1"})

SpecBalance == InitBalance /\ [][NextBalance]_vars

\* A collective admin approves the expense and payExpense is called on it.
NextApprovePay ==
  \/ approveExpense([user |-> "cadmin", scope |-> TRUE])
  \/ PayRequests({"r1"})

SpecApprovePay == InitApprovePay /\ [][NextApprovePay]_vars

\* The edits of a draft and of the expense submitted from it, and its review.
NextDraft ==
  \/ \E req \in Reqs, change \in Changes \cup AmountChanges : editExpense(req, change)
  \/ \E req \in Reqs, change \in Changes \cup AmountChanges : editExpenseDraft(req, change)
  \/ \E req \in Reqs, draftKeyArg \in DraftKeyArgs,
        payee \in {"requested", "newMatching", "newOther", "exists"},
        change \in Changes \cup AmountChanges :
       submitExpenseDraft(req, hasCorrectDraftKey(draftKeyArg), payee, change)
  \/ \E req \in Reqs, draftKeyArg \in DraftKeyArgs :
       declineInvitedExpense(req, hasCorrectDraftKey(draftKeyArg))
  \/ \E req \in Reqs : approveExpense(req)
  \/ \E req \in Reqs : unapproveExpense(req)
  \/ \E req \in Reqs : markExpenseAsIncomplete(req)
  \/ \E req \in Reqs : rejectExpense(req)
  \/ \E req \in Reqs, how \in {"ok", "limitFeature", "activity"} : markExpenseAsSpam(req, how)

SpecDraft == InitDraft /\ [][NextDraft]_vars

\* The review of an expense submitted by an admin.
NextPolicy ==
  \/ \E req \in Reqs : approveExpense(req)
  \/ \E req \in Reqs : unapproveExpense(req)
  \/ \E req \in Reqs : rejectExpense(req)
  \/ \E req \in Reqs : markExpenseAsIncomplete(req)

SpecPolicy == InitPolicy /\ [][NextPolicy]_vars

\* The whole lifecycle, with one request at a time taking the lock.
Next ==
  \/ PayRequests({"r1"})
  \/ UnpaidRequests({"r1"})
  \/ \E req \in Reqs : approveExpense(req)
  \/ \E req \in Reqs : unapproveExpense(req)
  \/ \E req \in Reqs : requestExpenseReApproval(req)
  \/ \E req \in Reqs : markExpenseAsIncomplete(req)
  \/ \E req \in Reqs : rejectExpense(req)
  \/ \E req \in Reqs, draftKeyArg \in DraftKeyArgs :
       declineInvitedExpense(req, hasCorrectDraftKey(draftKeyArg))
  \/ \E req \in Reqs, how \in {"ok", "limitFeature", "activity"} : markExpenseAsSpam(req, how)
  \/ \E req \in Reqs, how \in {"ok", "provider"} : unscheduleExpensePayment(req, how)
  \/ \E req \in Reqs, feesPayerArg \in {"unset", "PAYEE"},
        twoFactor \in TwoFactorAnswers,
        how \in {"ok", "provider", "noAccount"} :
       scheduleExpenseForPayment(req, feesPayerArg, twoFactor, how)
  \/ \E req \in Reqs, withRow \in BOOLEAN, how \in {"ok", "invalid", "ledger", "markAsPaid"} :
       createExpense(req, withRow, how)
  \/ \E req \in Reqs, change \in Changes : editExpense(req, change)
  \/ \E req \in Reqs, draftKeyArg \in DraftKeyArgs,
        payee \in {"requested", "newMatching", "newOther", "exists"},
        change \in {"description", "items"} :
       submitExpenseDraft(req, hasCorrectDraftKey(draftKeyArg), payee, change)

Spec == Init /\ [][Next]_vars

\* The expenses that host admins put on hold: a settlement and an invoice paid
\* manually, pending approval or not created.
HoldConfigs ==
  {Config("SETTLEMENT", "author", <<"BANK_ACCOUNT", "other">>, LowBalance, FALSE),
   Config("INVOICE", "author", <<"OTHER", "manual">>, HighBalance, FALSE)}

InitHold == InitWith({NONE, "PENDING"}, HoldConfigs)

\* Approval, hold and release, and the operations that move an approved
\* expense on: payment, scheduling, edition, unapproval, rejection.
NextHold ==
  \/ PayRequests({"r1"})
  \/ \E req \in Reqs : approveExpense(req)
  \/ \E req \in Reqs : unapproveExpense(req)
  \/ \E req \in Reqs : requestExpenseReApproval(req)
  \/ \E req \in Reqs : markExpenseAsIncomplete(req)
  \/ \E req \in Reqs : rejectExpense(req)
  \/ \E req \in Reqs : holdExpense(req)
  \/ \E req \in Reqs : releaseExpense(req)
  \/ \E req \in Reqs, how \in {"ok", "provider"} : unscheduleExpensePayment(req, how)
  \/ \E req \in Reqs, feesPayerArg \in {"unset", "PAYEE"},
        twoFactor \in TwoFactorAnswers,
        how \in {"ok", "provider", "noAccount"} :
       scheduleExpenseForPayment(req, feesPayerArg, twoFactor, how)
  \/ \E req \in Reqs, change \in Changes : editExpense(req, change)

\* The expenses marked as unpaid: an invoice, the charge of a virtual card and
\* a settlement, all paid manually.
UnpaidConfigs ==
  {Config(t, "author", <<"OTHER", "manual">>, HighBalance, FALSE) :
     t \in {"INVOICE", "CHARGE", "SETTLEMENT"}}

InitUnpaid == InitWith({"APPROVED"}, UnpaidConfigs)

NextUnpaid == PayRequests({"r1"}) \/ UnpaidRequests(Procs)

SpecUnpaid == InitUnpaid /\ [][NextUnpaid]_vars

\* An invoice pending approval or not created, and a host admin whose
\* USE_EXPENSES feature has been disabled or not.
InitLimited ==
  /\ status \in {NONE, "PENDING"}
  /\ isLocked = FALSE
  /\ feesPayer = "COLLECTIVE"
  /\ ledger = <<>>
  /\ cache = Absent
  /\ providerCalls = 0
  /\ limited \in {{}, {"hadmin"}}
  /\ recurringExpense = "none"
  /\ onHold = FALSE
  /\ providerData = FALSE
  /\ importRow = PendingRow
  /\ imports = [p \in Procs |-> NoImport]
  /\ draftKey = Undefined
  /\ expenseAmount = ExpenseAmount
  /\ expenseCurrency = "USD"
  /\ edit = NoEdit
  /\ elsewhere = NoneElsewhere
  /\ cfg \in {Config("INVOICE", "author", <<"OTHER", "manual">>, HighBalance, FALSE),
               Config("INVOICE", "author", <<"PAYPAL", "paypal">>, HighBalance, FALSE)}
  /\ proc = [p \in Procs |-> Idle]
  /\ last = NoError

SpecLimited == InitLimited /\ [][NextHold]_vars

\* A row of an import that is pending, linked to another expense or ignored,
\* and no expense of the collective yet.
InitImport ==
  /\ status = NONE
  /\ isLocked = FALSE
  /\ feesPayer = "COLLECTIVE"
  /\ ledger = <<>>
  /\ cache = Absent
  /\ providerCalls = 0
  /\ limited = {}
  /\ recurringExpense = "none"
  /\ onHold = FALSE
  /\ providerData = FALSE
  /\ importRow \in {PendingRow, Row("LINKED", "other"), Row("IGNORED", NONE)}
  /\ imports = [p \in Procs |-> NoImport]
  /\ draftKey = Undefined
  /\ expenseAmount = ExpenseAmount
  /\ expenseCurrency = "USD"
  /\ edit = NoEdit
  /\ elsewhere = NoneElsewhere
  /\ cfg = Config("INVOICE", "hadmin", <<"OTHER", "manual">>, HighBalance, FALSE)
  /\ proc = [p \in Procs |-> Idle]
  /\ last = NoError

\* The createExpense calls made for the row, each by a request of its own.
NextImport ==
  \/ \E p \in Procs, req \in Reqs : createExpenseLoadRow(p, req)
  \/ \E p \in Procs, how \in {"ok", "invalid", "import", "activity", "ledger", "markAsPaid"} :
       createExpenseForRow(p, how)

SpecImport == InitImport /\ [][NextImport]_vars

\* A charge and an invoice, paid manually, approved or not created.
ChargeConfigs ==
  {Config(t, "author", <<"OTHER", "manual">>, HighBalance, FALSE) : t \in {"CHARGE", "INVOICE"}}

InitCharge == InitWith({NONE, "APPROVED"}, ChargeConfigs)

\* The payment of the expense and the edits made before and after it.
NextCharge ==
  \/ PayRequests({"r1"})
  \/ \E req \in Reqs : approveExpense(req)
  \/ \E req \in Reqs : markExpenseAsIncomplete(req)
  \/ \E req \in Reqs, change \in Changes \cup ChargeChanges : editExpense(req, change)

SpecCharge == InitCharge /\ [][NextCharge]_vars

SpecHold == InitHold /\ [][NextHold]_vars

\* The whole lifecycle of an expense that may come from a recurring expense.
SpecSpam == InitSpam /\ [][Next]_vars

\* ---------------------------------------------------------------------------
\* Properties
\* ---------------------------------------------------------------------------

\* The requests whose callback is running under the lock.
Holders == {p \in Procs : proc[p].pc \in {"locked", "validated", "unlock"}}

\* A step in which request p calls payExpense and reaches lockExpense.
ReachesLock(p) ==
  /\ proc[p].pc = "idle"
  /\ proc'[p].pc \in {"locked", "failed"}
  /\ proc'[p].op = "payExpense"

\* C1: of two concurrent payExpense calls on the same expense only one holds
\* the lock at a time, having turned isLocked from false to true; a call that
\* finds the flag set fails at once with the "already being processed" error,
\* its callback does not run (nothing but its own failure changes) and the
\* holder's flag stays set, so that no two payouts of the expense overlap.
C1_ExactlyOneAcquires ==
  [][/\ Cardinality(Holders') <= 1
     /\ Holders' # {} => isLocked'
     /\ \A p \in Procs :
          ReachesLock(p) =>
            IF isLocked
            THEN /\ proc'[p] = Failed("payExpense", ErrLocked)
                 /\ isLocked'
                 /\ UNCHANGED <<status, feesPayer, ledger, cache, providerCalls>>
                 /\ \A q \in Procs \ {p} : proc'[q] = proc[q]
            ELSE status # NONE => proc'[p].pc = "locked" /\ isLocked']_vars

\* A payExpense call has been refused the lock while the other one's payout
\* callback is running.
C1_Witness ==
  \E p, q \in Procs :
    /\ proc[p] = Failed("payExpense", ErrLocked)
    /\ proc[q].pc = "validated"
    /\ proc[q].op = "payExpense"
    /\ isLocked

\* C4: the lock taken for payExpense or markExpenseAsUnpaid is released when
\* the callback has finished, whether it returned or threw: the finally
\* block clears isLocked, and the flag is never left set while no callback
\* is running, so a later payExpense can take the lock again.
C4_LockReleased ==
  [][/\ \A p \in Procs : proc[p].pc = "unlock" /\ proc'[p].pc = "idle" => ~isLocked'
     /\ Holders' = {} => ~isLocked']_vars

\* A payExpense call holds the lock again after an earlier callback threw
\* once the ledger had been written (the expense is still payable).
C4_Witness ==
  \E p \in Procs :
    /\ proc[p].pc = "locked"
    /\ proc[p].op = "payExpense"
    /\ isLocked
    /\ LiveTransactions(ledger) > 0
    /\ status \in PayableStatuses

C3_ThrowLeavesStatus ==
  [][/\ (status # NONE /\ proc' = proc /\ last' # NoError) => status' = status
     /\ \A p \in Procs :
          (proc[p].pc # "unlock" /\ proc'[p].pc = "unlock" /\ proc'[p].err # NoError)
            => status' = status]_vars

\* C5: the payout callback goes past its checks only when the status it reads
\* under the lock is APPROVED or ERROR and the caller is a host admin whose
\* token has the expenses scope; for an expense that is PAID, PROCESSING or in
\* any other status it throws Forbidden, with no balance check, provider call,
\* 2FA counter change or ledger write, and a payout is dispatched only for a
\* payable expense.
C5_PayoutGate ==
  [][\A p \in Procs :
       /\ (proc[p].pc = "locked" /\ proc[p].op = "payExpense" /\ proc'[p] # proc[p]) =>
            /\ proc'[p].pc = "validated" =>
                 /\ status \in {"APPROVED", "ERROR"}
                 /\ proc[p].req.scope
                 /\ proc[p].req.user = "hadmin"
            /\ status \notin {"APPROVED", "ERROR", NONE} =>
                 /\ proc'[p].pc = "unlock"
                 /\ proc'[p].err = "Forbidden"
                 /\ UNCHANGED <<status, feesPayer, ledger, cache, providerCalls>>
       /\ (proc[p].pc = "validated" /\ proc'[p] # proc[p]) =>
            status \in {"APPROVED", "ERROR"}]_vars

\* payExpense has thrown Forbidden for an expense that is already paid or
\* whose transfer is being processed.
C5_Witness ==
  \E p \in Procs :
    /\ proc[p].pc = "unlock"
    /\ proc[p].op = "payExpense"
    /\ proc[p].err = "Forbidden"
    /\ status \in {"PAID", "PROCESSING"}
    /\ isLocked

\* C6: when the lock is released after a synchronous payout either the
\* ledger transactions have been created and the status updated, or neither:
\* the lock is never free while a ledger transaction of the expense is live
\* and its status is still APPROVED or ERROR.
C6_AllOrNothing ==
  ~isLocked => ~(LiveTransactions(ledger) > 0 /\ status \in {"APPROVED", "ERROR"})

\* C7: when the balance of the payer is lower than the amount of an expense
\* that is not a SETTLEMENT, the fees being paid by the collective, payExpense
\* called by a host admin on a payable expense throws ValidationFailed
\* whatever the payout method, before any provider call, 2FA counter change
\* or ledger write, and the status stays as it was.  With forceManual the
\* balance is compared with the total declared by the host admin, so only
\* the calls whose declared total exceeds the balance are looked at.
C7_InsufficientBalance ==
  [][\A p \in Procs, args \in PayArgs, fee \in {0, ProcessorFee},
        twoFactor \in TwoFactorAnswers :
       (/\ PayExpenseValidate(p, args, fee, twoFactor)
        /\ status \in PayableStatuses
        /\ proc[p].req = [user |-> "hadmin", scope |-> TRUE]
        /\ cfg.type # "SETTLEMENT"
        /\ cfg.balance < ExpenseAmount
        /\ args.feesPayer = "unset"
        /\ feesPayer = "COLLECTIVE"
        /\ args.forceManual => cfg.balance < args.total)
       => /\ proc'[p].pc = "unlock"
          /\ proc'[p].err = "ValidationFailed"
          /\ UNCHANGED <<status, ledger, cache, providerCalls>>]_vars

\* C8: every operation that records or reverses ledger transactions of the
\* expense, or schedules it for payment, does so while the soft lock of the
\* expense is held: the ledger changes and the status becomes
\* SCHEDULED_FOR_PAYMENT only in steps taken with isLocked set.
C8_FinancialStepsLocked ==
  [][(ledger' # ledger \/ (status # status' /\ status' = "SCHEDULED_FOR_PAYMENT"))
       => isLocked]_vars

\* The request carries the expenses scope and comes from one of the users.
HasRole(req, users) == req.scope /\ req.user \in users

C10_CounterRolledBack ==
  [][\A p \in Procs :
       (/\ proc[p].pc = "validated"
        /\ proc[p].use2FA
        /\ cache.val # proc[p].pre.val
        /\ proc'[p].pc = "unlock"
        /\ proc'[p].err # NoError)
       => cache'.val = proc[p].pre.val]_vars

\* C11: an error raised inside a payout path reaches the caller of payExpense
\* as the same error: on every dispatch path the error with which the
\* callback ends is the one that was raised inside the path.
C11_ErrorUnchanged ==
  [][\A p \in Procs,
        a \in Answers("paypal") \cup Answers("forceManual") \cup Answers("bank")
               \cup Answers("balance") :
       PayExpenseDispatch(p, a) =>
         proc'[p].err = Raised(Branch(proc[p].forceManual, cfg.payoutMethodType,
                                      cfg.legacyPayoutMethod), a)]_vars

\* The amount of the expense in the currency of the host.
AmountInHostCurrency == Round(ExpenseAmount * cfg.fx.hostRate, 100)

\* The counter is absent, or the counter plus the amount of the expense in
\* host currency is greater than the rolling limit of the host.
TokenRequired ==
  \/ ~cache.set
  \/ cache.val + AmountInHostCurrency
       > (IF cfg.rollingLimit = 0 THEN 1000000 ELSE cfg.rollingLimit)

\* C12: validateExpensePayout2FALimit demands a 2FA token whenever the
\* counter is absent or the counter plus the amount of the expense in host
\* currency is greater than the rolling limit of the host (1,000,000 when
\* none is configured): in every such state no payExpense or
\* scheduleExpenseForPayment call under the rolling limit can pass the
\* validation unless its request presents a token, a live two-factor session
\* being refused.
C12_TokenDemanded ==
  TokenRequired =>
    \A twoFactor \in TwoFactorAnswers \ {"passed"} :
      /\ ~ENABLED (\E p \in Procs, args \in PayArgs, fee \in {0, ProcessorFee} :
                     /\ PayExpenseValidate(p, args, fee, twoFactor)
                     /\ proc'[p].pc = "validated"
                     /\ proc'[p].use2FA)
      /\ ~ENABLED (\E req \in Reqs, feesPayerArg \in {"unset", "PAYEE"},
                      how \in {"ok", "provider", "noAccount"} :
                     /\ scheduleExpenseForPayment(req, feesPayerArg, twoFactor, how)
                     /\ status' = "SCHEDULED_FOR_PAYMENT"
                     /\ cfg.payoutMethodType = "PAYPAL"
                     /\ cfg.payouts2FA)

\* A payout has passed the validation with a token because the counter,
\* which was present, would have gone over the rolling limit.
C12_Witness ==
  \E p \in Procs :
    /\ proc[p].pc = "validated"
    /\ proc[p].use2FA
    /\ proc[p].pre.set
    /\ proc[p].pre.val > 0
    /\ cache = Entry(0)

\* C13: when the 2FA validation of a payout succeeds, the counter is reset
\* to 0 if a token was consumed for it (the counter was absent or would have
\* gone over the limit), and otherwise becomes its previous value plus the
\* amount of the expense in host currency.
C13_CounterAfterValidation ==
  [][/\ \A p \in Procs :
          (/\ proc[p].pc = "locked"
           /\ proc'[p].pc = "validated"
           /\ proc'[p].use2FA)
          => cache' = [set |-> TRUE,
                       val |-> IF TokenRequired THEN 0
                               ELSE cache.val + AmountInHostCurrency]
     /\ (/\ status # "SCHEDULED_FOR_PAYMENT"
         /\ status' = "SCHEDULED_FOR_PAYMENT"
         /\ cfg.payoutMethodType = "PAYPAL" /\ cfg.payouts2FA)
        => cache' = [set |-> TRUE,
                     val |-> IF TokenRequired THEN 0
                             ELSE cache.val + AmountInHostCurrency]]_vars

\* A payout has passed the validation without a token: the counter holds
\* what it held before plus the amount in the currency of the host, which is
\* not the currency of the expense.
C13_Witness ==
  \E p \in Procs :
    /\ proc[p].pc = "validated"
    /\ proc[p].use2FA
    /\ proc[p].pre.set
    /\ cfg.fx.hostRate # 100
    /\ cache.val = proc[p].pre.val + AmountInHostCurrency
    /\ cache.val > ExpenseAmount

\* C14: the rolling counter is kept per host and two-factor session: a
\* payout made by the host admin for another host, or in another session,
\* does not change the counter that gates the payouts made for the host of
\* the expense in session s1.
C14_CounterPerHostAndSession ==
  [][\A hostId \in Hosts, sessionId \in Sessions, twoFactor \in TwoFactorAnswers :
       (/\ payExpenseElsewhere(hostId, sessionId, twoFactor)
        /\ <<hostId, sessionId>> # <<"host", "s1">>)
       => cache' = cache]_vars

\* Request p holds the lock for a payExpense call of a host admin on a payable
\* expense that is not a settlement.
Paying(p) ==
  /\ proc[p].pc = "locked"
  /\ proc[p].op = "payExpense"
  /\ status \in PayableStatuses
  /\ proc[p].req = [user |-> "hadmin", scope |-> TRUE]
  /\ "hadmin" \notin limited
  /\ cfg.type # "SETTLEMENT"
  /\ cfg.legacyPayoutMethod # "donation"

\* C15: in checkHasBalanceToPayExpense the total to deduct from the payer is
\* amount + processor fee for feesPayer COLLECTIVE and the amount exactly for
\* PAYEE, for every processor fee >= 0, and any other feesPayer is rejected
\* with an error: when the fees are estimated (no forceManual) for an
\* expense in the currency of the collective, the check passes exactly when
\* the balance covers that total, and never for another feesPayer, which is
\* rejected with an Error once the balance covers the amount.
C15_FeesPayerTotal ==
  \A p \in Procs :
    (Paying(p) /\ cfg.fx.same) =>
      \A args \in {a \in PayArgs : ~a.forceManual}, fee \in {0, 1, ProcessorFee} :
        LET fp == IF args.feesPayer # "unset" THEN args.feesPayer ELSE feesPayer
            passes == ENABLED (/\ PayExpenseValidate(p, args, fee, "passed")
                               /\ proc'[p].pc = "validated")
            throwsError == ENABLED (/\ PayExpenseValidate(p, args, fee, "passed")
                                    /\ proc'[p].err = "Error")
        IN /\ fp = "COLLECTIVE" => (passes <=> cfg.balance >= ExpenseAmount + fee)
           /\ (fp = "PAYEE" /\ typeSupportsFeesPayer(cfg.payoutMethodType))
                => (passes <=> cfg.balance >= ExpenseAmount)
           /\ fp \notin {"COLLECTIVE", "PAYEE"}
                => ~passes /\ (cfg.balance >= ExpenseAmount => throwsError)

\* A payout whose fees are paid by the payee has passed the check with a
\* balance that covers the amount but not the amount plus the fee.
C15_Witness ==
  \E p \in Procs :
    /\ proc[p].pc = "validated"
    /\ ~proc[p].forceManual
    /\ feesPayer = "PAYEE"
    /\ cfg.fx.same
    /\ cfg.balance >= ExpenseAmount
    /\ cfg.balance < ExpenseAmount + ProcessorFee

\* C16: in the cross-currency balance check with pair statistics, the
\* balance required to pay the amount is exactly amount / latestRate
\* (rounded to a minor unit) when the standard deviation is zero and
\* strictly increases with the standard deviation: a payout that has passed
\* the check has a balance that covers amount / latestRate, more than that
\* when the standard deviation is not zero, and enough for every smaller
\* standard deviation.
C16_MarginMonotone ==
  \A p \in Procs :
    (/\ proc[p].pc = "validated"
     /\ ~proc[p].forceManual
     /\ cfg.type # "SETTLEMENT"
     /\ ~cfg.fx.same
     /\ cfg.fx.hasStats) =>
      /\ cfg.balance >= Round(ExpenseAmount * 100, cfg.fx.latest)
      /\ cfg.fx.stddev > 0 => cfg.balance > Round(ExpenseAmount * 100, cfg.fx.latest)
      /\ \A d \in 0 .. cfg.fx.stddev :
           ~assertMinExpectedBalanceFails(cfg.balance, ExpenseAmount,
                                          [cfg.fx EXCEPT !.stddev = d])

\* C17: a PENDING expense approved by a collective admin becomes APPROVED,
\* and a payExpense call of a host admin with forceManual and a declared
\* total covered by the balance that returns leaves the status PAID and
\* exactly one more ledger transaction, a manual payment of the declared
\* total (the only one when the ledger was empty); once its lock is
\* released, isLocked is false.
C17_ApproveThenPay ==
  [][/\ (status = "PENDING" /\ status' # status)
          => status' = "APPROVED" /\ ledger' = <<>> /\ isLocked' = isLocked
     /\ \A p \in Procs :
          /\ (/\ proc[p].pc = "validated"
              /\ proc[p].forceManual
              /\ proc'[p].pc = "unlock"
              /\ proc'[p].err = NoError)
             => /\ proc[p].req = [user |-> "hadmin", scope |-> TRUE]
                /\ Round(cfg.balance * cfg.fx.hostRate, 100) >= proc[p].total
                /\ status' = "PAID"
                /\ ledger' = Append(ledger, [kind |-> "MANUAL", declared |-> proc[p].total])
                /\ isLocked'
          /\ (proc[p].pc = "unlock" /\ proc'[p].pc = "idle") => ~isLocked']_vars

\* The expense, approved by the collective admin, has been paid manually at
\* the first attempt: it is PAID, its ledger holds one manual payment of the
\* declared total and its lock is released.
C17_Witness ==
  /\ status = "PAID"
  /\ Len(ledger) = 1
  /\ ledger[1].kind = "MANUAL"
  /\ ledger[1].declared \in {LowTotal, ExpenseAmount}
  /\ ~isLocked
  /\ \A p \in Procs : proc[p].pc = "idle"

\* ---------------------------------------------------------------------------
\* C18
\* ---------------------------------------------------------------------------

\* The expense has just been marked as spam by a call that returned.
MarkedAsSpam == status' = "SPAM" /\ status # "SPAM" /\ last' = NoError

C19_LockedAmountKept ==
  [][(status = "DRAFT" /\ "AMOUNT" \in cfg.lockedFields) =>
       (expenseAmount' = expenseAmount /\ expenseCurrency' = expenseCurrency)]_vars

\* ---------------------------------------------------------------------------
\* C20
\* ---------------------------------------------------------------------------

\* The flag is set and no request is between acquisition and release: the
\* request that set it has stopped.
Stuck == isLocked /\ \A p \in Procs : proc[p].pc \in {"idle", "failed"}

\* C20: once the request that holds the lock has stopped, isLocked stays
\* true whatever happens next, no later payExpense or markExpenseAsUnpaid
\* gets past the acquisition, each of them failing there with the error of
\* a locked expense, and nothing else of the expense changes.
C20_StuckLock ==
  [][Stuck =>
       /\ Stuck'
       /\ \A p \in Procs :
            proc'[p] # proc[p] /\ proc[p].pc = "idle" =>
              proc'[p].pc = "failed" /\ proc'[p].err = ErrLocked
       /\ UNCHANGED <<status, ledger, providerCalls, cache>>]_vars

\* The lock is stuck and a later markExpenseAsUnpaid and a later payExpense
\* have failed at the acquisition.
C20_Witness ==
  /\ Stuck
  /\ \E p \in Procs :
       proc[p].pc = "failed" /\ proc[p].op = "markExpenseAsUnpaid" /\ proc[p].err = ErrLocked
  /\ \E p \in Procs :
       proc[p].pc = "failed" /\ proc[p].op = "payExpense" /\ proc[p].err = ErrLocked

\* ---------------------------------------------------------------------------
\* C21
\* ---------------------------------------------------------------------------

\* C21 as stated: a step that changes data.isLocked is a step of lockExpense,
\* made by a payExpense request that acquires or releases the lock.
C21_OnlyLockExpenseWritesFlag ==
  [][isLocked' # isLocked =>
       \E p \in Procs :
         \/ proc[p].pc = "idle" /\ proc'[p].pc = "locked"
         \/ proc[p].pc = "unlock" /\ proc'[p].pc = "idle"]_vars

\* ---------------------------------------------------------------------------
\* C22
\* ---------------------------------------------------------------------------

\* C22 as stated: the amounts, in the currency of the host, of the payouts
\* that have passed validateExpensePayout2FALimit without a token since the
\* last token was presented add up to the rolling limit of the host at most.
C22_SumWithinRollingLimit == elsewhere.sum <= RollingLimit(cfg.rollingLimit)

\* ---------------------------------------------------------------------------
\* C23
\* ---------------------------------------------------------------------------

\* C23: approveExpense changes the status, to APPROVED, only when the
\* expense is PENDING, REJECTED or INCOMPLETE and the request comes from a
\* collective admin or a host admin; for an INCOMPLETE expense it does so
\* for a host admin only, a collective admin being refused.
C23_ApproveGate ==
  \A req \in Reqs :
    /\ ENABLED (approveExpense(req) /\ status' # status) =>
         /\ status \in {"PENDING", "REJECTED", "INCOMPLETE"}
         /\ HasRole(req, {"cadmin", "hadmin"})
         /\ status = "INCOMPLETE" => req.user = "hadmin"
    /\ ~ENABLED (approveExpense(req) /\ status' # status /\ status' # "APPROVED")

\* An INCOMPLETE expense that a host admin can approve and a collective
\* admin cannot.
C23_Witness ==
  /\ status = "INCOMPLETE"
  /\ ENABLED (approveExpense([user |-> "hadmin", scope |-> TRUE]) /\ status' = "APPROVED")
  /\ ~ENABLED approveExpense([user |-> "cadmin", scope |-> TRUE])

\* ---------------------------------------------------------------------------
\* C24
\* ---------------------------------------------------------------------------

\* The request of the author of the expense.
AuthorReq == [user |-> cfg.userId, scope |-> TRUE]

\* The policy blocks the approval of the expense by its author.
Blocks(p) == p.enabled /\ expenseAmount >= p.amountInCents

\* The author is refused the approval with AUTHOR_CANNOT_APPROVE.
AuthorRefused ==
  /\ status \in {"PENDING", "REJECTED", "INCOMPLETE"} /\ canUseFeature(cfg.userId)
       => canApprove(AuthorReq, status) = "AUTHOR_CANNOT_APPROVE"
  /\ ~ENABLED approveExpense(AuthorReq)

\* C24 as stated: the policy of the host is the one that applies, that of
\* the collective when the collective has one admin; when the one that
\* applies is enabled and the amount is at or above its threshold, the
\* author cannot approve.
C24_HostPolicyFirst ==
  Blocks(IF cfg.collectiveAdminCount = 1 THEN cfg.collectivePolicy ELSE cfg.hostPolicy)
    => AuthorRefused

\* C24: the policy of the host, when it is enabled and applies to hosted
\* collectives, is the one that applies, unless the collective has one admin
\* and the policy of the host does not apply to single-admin collectives;
\* otherwise that of the collective applies.  When the one that applies is
\* enabled and the amount is at or above its threshold, the author cannot
\* approve.
C24_ApplicablePolicy ==
  LET hostApplies ==
        /\ cfg.hostPolicy.enabled
        /\ cfg.hostPolicy.appliesToHostedCollectives
        /\ ~(cfg.collectiveAdminCount = 1 /\ ~cfg.hostPolicy.appliesToSingleAdminCollectives)
  IN Blocks(IF hostApplies THEN cfg.hostPolicy ELSE cfg.collectivePolicy) => AuthorRefused

\* The only admin of a collective cannot approve its own expense, rejected
\* by the host, which the policy of the collective blocks and that of the
\* host, enabled for collectives of several admins, would let through.
C24_Witness ==
  /\ status = "REJECTED"
  /\ cfg.userId = "cadmin"
  /\ cfg.collectiveAdminCount = 1
  /\ cfg.hostPolicy.enabled /\ cfg.hostPolicy.appliesToHostedCollectives
  /\ ~cfg.hostPolicy.appliesToSingleAdminCollectives
  /\ ~Blocks(cfg.hostPolicy)
  /\ Blocks(cfg.collectivePolicy)
  /\ canApprove(AuthorReq, status) = "AUTHOR_CANNOT_APPROVE"
  /\ ~ENABLED approveExpense(AuthorReq)

\* ---------------------------------------------------------------------------
\* C25
\* ---------------------------------------------------------------------------

\* C25: unapproveExpense changes the status, to PENDING, only when the
\* expense is APPROVED, INCOMPLETE or ERROR and the request comes from a
\* collective admin or a host admin; for an INCOMPLETE expense it does so
\* for a host admin only.
C25_UnapproveGate ==
  \A req \in Reqs :
    /\ ENABLED (unapproveExpense(req) /\ status' # status) =>
         /\ status \in {"APPROVED", "INCOMPLETE", "ERROR"}
         /\ HasRole(req, {"cadmin", "hadmin"})
         /\ status = "INCOMPLETE" => req.user = "hadmin"
    /\ ~ENABLED (unapproveExpense(req) /\ status' # status /\ status' # "PENDING")

\* An INCOMPLETE expense that a host admin can unapprove and a collective
\* admin cannot.
C25_Witness ==
  /\ status = "INCOMPLETE"
  /\ ENABLED (unapproveExpense([user |-> "hadmin", scope |-> TRUE]) /\ status' = "PENDING")
  /\ ~ENABLED unapproveExpense([user |-> "cadmin", scope |-> TRUE])

\* ---------------------------------------------------------------------------
\* C26
\* ---------------------------------------------------------------------------

HostAdminReq == [user |-> "hadmin", scope |-> TRUE]

\* C27: markExpenseAsIncomplete changes the status only from APPROVED or
\* ERROR, only for a host admin and never for a SETTLEMENT expense, and the
\* change it makes is to INCOMPLETE with the on-hold flag cleared.
C27_IncompleteGate ==
  \A req \in Reqs :
    /\ ENABLED (markExpenseAsIncomplete(req) /\ status' # status) =>
         /\ status \in {"APPROVED", "ERROR"}
         /\ HasRole(req, {"hadmin"})
         /\ cfg.type # "SETTLEMENT"
    /\ ~ENABLED (markExpenseAsIncomplete(req) /\ status' # status
                   /\ ~(status' = "INCOMPLETE" /\ onHold' = FALSE))

\* An approved expense on hold that the host admin can mark as incomplete,
\* which releases the hold.
C27_Witness ==
  /\ status = "APPROVED"
  /\ onHold
  /\ ENABLED (markExpenseAsIncomplete(HostAdminReq) /\ status' = "INCOMPLETE" /\ ~onHold')

\* ---------------------------------------------------------------------------
\* C28
\* ---------------------------------------------------------------------------

\* C28: holdExpense succeeds only for a host admin on an APPROVED expense
\* that is not a SETTLEMENT and not on hold, and sets onHold; releaseExpense
\* succeeds only for a host admin on an expense on hold, and clears onHold;
\* neither changes the status.
C28_HoldGate ==
  \A req \in Reqs :
    /\ ENABLED holdExpense(req) =>
         /\ HasRole(req, {"hadmin"})
         /\ status = "APPROVED"
         /\ cfg.type # "SETTLEMENT"
         /\ ~onHold
    /\ ~ENABLED (holdExpense(req) /\ ~(onHold' /\ status' = status))
    /\ ENABLED releaseExpense(req) => HasRole(req, {"hadmin"}) /\ onHold
    /\ ~ENABLED (releaseExpense(req) /\ ~(~onHold' /\ status' = status))

\* An approved expense put on hold: the host admin can release it, the
\* collective admin cannot, and nobody can put it on hold again.
C28_Witness ==
  /\ status = "APPROVED"
  /\ onHold
  /\ last = NoError
  /\ ENABLED (releaseExpense(HostAdminReq) /\ ~onHold' /\ status' = "APPROVED")
  /\ ~ENABLED releaseExpense([user |-> "cadmin", scope |-> TRUE])
  /\ \A req \in Reqs : ~ENABLED holdExpense(req)

\* ---------------------------------------------------------------------------
\* C29
\* ---------------------------------------------------------------------------

\* C29 as stated: an expense on hold is APPROVED.
C29_HeldIsApproved == onHold => status = "APPROVED"

\* ---------------------------------------------------------------------------
\* C30
\* ---------------------------------------------------------------------------

\* The request p is in the callback of markExpenseAsUnpaid.
Unpaying(p) == proc[p].pc = "locked" /\ proc[p].op = "markExpenseAsUnpaid"

\* C30: markExpenseAsUnpaid changes the status only of a PAID expense that is
\* not a CHARGE, for a host admin (a platform admin for a SETTLEMENT); the
\* status changes only together with the refund of the ledger, to the status
\* asked for (APPROVED when none is), and stays PAID when the refund fails.
C30_UnpaidGate ==
  \A p \in Procs, st \in UnpaidArgs :
    /\ \A how \in {"ok", "refund", "update"} :
         /\ ENABLED (markExpenseAsUnpaidBody(p, st, how) /\ status' # status) =>
              /\ status = "PAID"
              /\ cfg.type # "CHARGE"
              /\ HasRole(proc[p].req,
                         IF cfg.type = "SETTLEMENT" THEN {"padmin"} ELSE {"hadmin"})
         /\ ~ENABLED (markExpenseAsUnpaidBody(p, st, how) /\ status' # status
                        /\ ledger' # Append(ledger, Tx("REFUND")))
    /\ ~ENABLED (markExpenseAsUnpaidBody(p, st, "ok") /\ status' # status
                   /\ status' # (IF st = "unset" THEN "APPROVED" ELSE st))
    /\ ~ENABLED (markExpenseAsUnpaidBody(p, st, "refund")
                   /\ (status' # status \/ ledger' # ledger))

\* A host admin is marking a paid invoice as unpaid: without a target the
\* expense becomes APPROVED, with one it takes it, and it stays PAID when the
\* refund cannot be created.
C30_Witness ==
  /\ Unpaying("r1")
  /\ status = "PAID"
  /\ cfg.type = "INVOICE"
  /\ ENABLED (markExpenseAsUnpaidBody("r1", "unset", "ok") /\ status' = "APPROVED"
                /\ ledger' = Append(ledger, Tx("REFUND")))
  /\ ENABLED (markExpenseAsUnpaidBody("r1", "INCOMPLETE", "ok") /\ status' = "INCOMPLETE")
  /\ ENABLED (markExpenseAsUnpaidBody("r1", "ERROR", "refund") /\ status' = "PAID"
                /\ ledger' = ledger)

\* ---------------------------------------------------------------------------
\* C31
\* ---------------------------------------------------------------------------

\* C31 as stated: declineInvitedExpense changes the status only to
\* INVITE_DECLINED, only from DRAFT, and only for the authenticated invitee or
\* for an anonymous actor who presents a key, the one stored on the expense.
C31_DeclineGate ==
  \A req \in Reqs, key \in DraftKeyArgs :
    /\ ENABLED (declineInvitedExpense(req, hasCorrectDraftKey(key))
                  /\ status' # status) =>
         /\ status = "DRAFT"
         /\ \/ HasRole(req, {"invitee"})
            \/ req.user = NoUser /\ key # Undefined /\ key = draftKey
    /\ ~ENABLED (declineInvitedExpense(req, hasCorrectDraftKey(key))
                   /\ status' # status /\ status' # "INVITE_DECLINED")

\* ---------------------------------------------------------------------------
\* C32
\* ---------------------------------------------------------------------------

\* The changes that call for a new review: amount, items, payout method.
Substantive == {"amount", "items", "payout"}

\* C32 as stated: an edit of an INCOMPLETE expense leaves it PENDING when the
\* change is of the amount, the items or the payout method and APPROVED
\* otherwise; an edit of an expense in another status leaves it PENDING when
\* the change is one of those, and in its status otherwise.
C32_EditResetsStatus ==
  \A req \in Reqs, change \in Changes :
    ~ENABLED (/\ editExpense(req, change)
              /\ ~(cfg.type = "CHARGE" /\ status \in {"PAID", "PROCESSING"})
              /\ status' # (IF change \in Substantive THEN "PENDING"
                            ELSE IF status = "INCOMPLETE" THEN "APPROVED"
                            ELSE status))

\* ---------------------------------------------------------------------------
\* C33
\* ---------------------------------------------------------------------------

\* C33 as stated: no edit of a CHARGE expense that is PAID or PROCESSING
\* changes its status.
C33_PaidChargeKeepsStatus ==
  \A req \in Reqs, change \in Changes \cup ChargeChanges :
    (cfg.type = "CHARGE" /\ status \in {"PAID", "PROCESSING"}) =>
      ~ENABLED (editExpense(req, change) /\ status' # status)

\* ---------------------------------------------------------------------------
\* C34
\* ---------------------------------------------------------------------------

\* C34 as stated: no step changes the status of an expense that is CANCELED,
\* SPAM or INVITE_DECLINED, and the status of a PAID expense is changed only
\* by the callback of markExpenseAsUnpaid.
C34_TerminalStatuses ==
  [][/\ status \in {"CANCELED", "SPAM", "INVITE_DECLINED"} => status' = status
     /\ (status = "PAID" /\ status' # "PAID") =>
          \E p \in Procs : Unpaying(p) /\ proc'[p].pc = "unlock"]_vars

\* ---------------------------------------------------------------------------
\* C35
\* ---------------------------------------------------------------------------

\* C35 as stated: a user whose USE_EXPENSES feature is disabled can make no
\* transition, whatever their role.
C35_LimitedUserRefused ==
  \A req \in Reqs :
    req.user \in limited =>
      /\ ~ENABLED approveExpense(req)
      /\ ~ENABLED unapproveExpense(req)
      /\ ~ENABLED requestExpenseReApproval(req)
      /\ ~ENABLED markExpenseAsIncomplete(req)
      /\ ~ENABLED rejectExpense(req)
      /\ ~ENABLED holdExpense(req)
      /\ ~ENABLED releaseExpense(req)
      /\ \A how \in {"ok", "provider"} : ~ENABLED unscheduleExpensePayment(req, how)
      /\ \A feesPayerArg \in {"unset", "PAYEE"}, twoFactor \in TwoFactorAnswers,
            how \in {"ok", "provider", "noAccount"} :
           ~ENABLED (scheduleExpenseForPayment(req, feesPayerArg, twoFactor, how)
                       /\ status' # status)

\* ---------------------------------------------------------------------------
\* C36
\* ---------------------------------------------------------------------------

\* The request p has passed the checks of payExpense and takes the
\* BANK_ACCOUNT branch.
OnBankPath(p) ==
  /\ proc[p].pc = "validated"
  /\ Branch(proc[p].forceManual, cfg.payoutMethodType, cfg.legacyPayoutMethod) = "bank"

\* C36: on the BANK_ACCOUNT path payExpense writes no transaction; when it
\* succeeds the host has a connected account of the provider, the expense is
\* PROCESSING and carries the provider's data; and no payExpense passes the
\* checks while the expense is PROCESSING.
C36_BankAccountProcessing ==
  /\ \A p \in Procs, a \in Answers("bank") :
       OnBankPath(p) =>
         /\ ~ENABLED (PayExpenseDispatch(p, a) /\ ledger' # ledger)
         /\ ~ENABLED (PayExpenseDispatch(p, a) /\ proc'[p].err = NoError
                        /\ ~(/\ a \notin {"ott", "noAccount"}
                             /\ status' = "PROCESSING"
                             /\ providerData'))
         /\ ~ENABLED (PayExpenseDispatch(p, a) /\ status' = "PAID")
  /\ status = "PROCESSING" =>
       \A p \in Procs, args \in PayArgsExplored, fee \in {0, ProcessorFee},
          twoFactor \in TwoFactorAnswers :
         ~ENABLED (PayExpenseValidate(p, args, fee, twoFactor) /\ proc'[p].pc = "validated")

\* A request has paid through the BANK_ACCOUNT path and ended: the expense
\* is PROCESSING with the provider's data and no transaction, and the next
\* payExpense holds the lock on it.
C36_Witness ==
  /\ status = "PROCESSING"
  /\ providerData
  /\ ledger = <<>>
  /\ cfg.payoutMethodType = "BANK_ACCOUNT"
  /\ \E p \in Procs : proc[p].pc = "locked" /\ proc[p].op = "payExpense"

\* ---------------------------------------------------------------------------
\* C37
\* ---------------------------------------------------------------------------

\* The request p has passed the checks of payExpense and takes the PayPal
\* branch.
OnPayPalPath(p) ==
  /\ proc[p].pc = "validated"
  /\ Branch(proc[p].forceManual, cfg.payoutMethodType, cfg.legacyPayoutMethod) = "paypal"

\* The answers in which the provider's pay resolves with an execution status
\* other than COMPLETED or rejects.
NotCompleted ==
  {"adaptive:CREATED", "adaptive:ERROR", "adaptive:OTHER", "adaptive:fundsExceeded",
   "adaptive:provider"}

\* C37 as stated: on the PayPal path COMPLETED ends in PAID, CREATED reaches
\* the caller as a BadRequest, ERROR and any other status as a ServerError,
\* an exceeded preapproval as a ValidationFailed, and no answer other than
\* COMPLETED writes a transaction or PAID.
C37_PayPalOutcomes ==
  \A p \in Procs, a \in NotCompleted \cup {"adaptive:ok"} :
    OnPayPalPath(p) =>
      ~ENABLED (/\ PayExpenseDispatch(p, a)
                /\ ~(/\ a = "adaptive:ok" => status' = "PAID" /\ proc'[p].err = NoError
                     /\ a = "adaptive:CREATED" => proc'[p].err = "BadRequest"
                     /\ a \in {"adaptive:ERROR", "adaptive:OTHER"} =>
                          proc'[p].err = "ServerError"
                     /\ a = "adaptive:fundsExceeded" => proc'[p].err = "ValidationFailed"
                     /\ a \in NotCompleted => ledger' = ledger /\ status' # "PAID"))

\* ---------------------------------------------------------------------------
\* C38
\* ---------------------------------------------------------------------------

\* C38 as stated: no transition whose status has been written ends with the
\* rejection of createActivity raised to its caller: neither a call made
\* outside the lock, nor the dispatch of payExpense, nor the end of
\* markExpenseAsUnpaid.
C38_ActivityFailureSwallowed ==
  /\ \A req \in Reqs :
       /\ ~ENABLED (approveExpense(req) /\ last' = ActivityError)
       /\ ~ENABLED (unapproveExpense(req) /\ last' = ActivityError)
       /\ ~ENABLED (markExpenseAsIncomplete(req) /\ last' = ActivityError)
       /\ ~ENABLED (rejectExpense(req) /\ last' = ActivityError)
       /\ ~ENABLED (markExpenseAsSpam(req, "activity") /\ last' = ActivityError)
  /\ \A p \in Procs :
       /\ ~ENABLED (PayExpenseDispatch(p, "activity") /\ proc'[p].err = ActivityError)
       /\ ~ENABLED (Unlock(p) /\ last' = ActivityError /\ last # ActivityError)

\* ---------------------------------------------------------------------------
\* C39
\* ---------------------------------------------------------------------------

\* The edit asks for a total or a currency that a locked field forbids:
\* checkLockedFields throws for what editExpense passes to it.
ConflictsWithLocked(change) ==
  checkLockedFields(cfg.lockedFields, {ExpenseData(change).total},
                    ExpenseData(change).currency) # NoError

\* C39 as stated: whenever an edit conflicts with a locked field, no check
\* of editExpense that stands before checkLockedFields throws (for the user,
\* the permission for the current status, the items of a paid charge or the
\* currency), so that the Forbidden of checkLockedFields is what the caller
\* gets, and editExpense writes nothing.
C39_LockedFieldsCheckedFirst ==
  \A req \in Reqs, change \in Changes \cup AmountChanges :
    (status # NONE /\ ConflictsWithLocked(change)) =>
      /\ EditError(req.user, req, status, change, FALSE) = NoError
      /\ EditLockedError(ExpenseData(change)) = "Forbidden"
      /\ ~ENABLED editExpense(req, change)

\* ---------------------------------------------------------------------------
\* C40
\* ---------------------------------------------------------------------------

\* The createExpense calls that have created a paid expense for the row.
PaidForRow == {p \in Procs : imports[p].pc = "done" /\ imports[p].expense = "PAID"}

====
